---- MODULE Spec2Model ----
(***************************************************************************)
(* Model of the key pool, the rate-limit / backoff state machine and the   *)
(* request-forwarding loop of src/main-openai.py.                          *)
(*                                                                         *)
(* Request handlers run on one asyncio event loop, so the code between two *)
(* suspension points is one atomic step.  KeyPool.next_available never     *)
(* suspends (nothing awaits while its lock is held), so a handler runs     *)
(* from its entry to the upstream dispatch in one step, and from the       *)
(* upstream outcome to its response (or to the next dispatch) in one step. *)
(***************************************************************************)
EXTENDS Integers, Sequences, FiniteSets, TLC

\* ------------------------------------------------------------ constants
BACKOFF_MIN == 5
BACKOFF_MAX == 600
DEFAULT_RPM == 5
DEFAULT_RPD == 20
MinuteSeconds == 60
DaySeconds == 86400

\* --------------------------------------------------------------- bounds
\* rows of the api_list table
MaxKeys == 2
\* concurrent request tasks
MaxTasks == 2
\* client requests per run with concurrent tasks
MaxRequests == 2
\* rows, and client requests per run, with one sequential client
MaxSeqKeys == 3
MaxSeqRequests == 4
\* client requests per run with one sequential client and one row
MaxOneRequests == 9
\* rows, request tasks and client requests per run when clients send any
\* of Requests
MaxFrontKeys == 2
MaxFrontTasks == 2
MaxFrontRequests == 2
\* rows, request tasks and client requests per run when upstream answers
\* with any of WideStatuses and streams chunks; chunks per stream
MaxStreamKeys == 1
MaxStreamTasks == 2
MaxStreamRequests == 3
MaxChunks == 2
\* clock advances per run
MaxTicks == 1
\* half minutes the clock runs, and client requests per run, with one key
\* whose minute window expires
MaxExpiryTicks == 3
MaxExpiryRequests == 6
\* rows, and client requests per run, with one client whose upstream calls
\* all end
MaxTermKeys == 2
MaxTermRequests == 3
\* rows, and client requests per run, with usage-sync tasks and a reload
MaxDurableKeys == 2
MaxDurableRequests == 2
\* acquisitions remembered in acqLog
MaxLog == 5
\* rows and client requests per run when one sequential client sends content
MaxRewriteKeys == 2
MaxRewriteRequests == 2
\* rows, request tasks and client requests per run when the admin reloads the
\* pool; reloads and row edits per run
MaxReloadKeys == 2
MaxReloadTasks == 2
MaxReloadRequests == 2
MaxReloads == 1
MaxEdits == 1

\* ------------------------------------------------------------ the clocks
\* time.monotonic() counts from an unspecified reference point; time.time()
\* counts from the epoch.  epoch is the difference of the two readings.
\* The process starts one minute before a UTC midnight.
StartMono == DaySeconds - MinuteSeconds
ClockOffsets == {0, 19000 * DaySeconds}
TickSteps == {5, 60}

NoDate == -1
NoKey == 0
NoCT == "none"
Statuses == {200, 400, 503}
ContentTypes == {NoCT, "application/x-ndjson"}
Bodies == {"b1", "b2"}
\* more upstream statuses, an empty error body, the chunks of a stream
WideStatuses == {200, 204, 400, 401, 403, 404, 407, 429, 500, 502, 503, 504}
StreamBodies == {"", "b1"}
Chunks == {<<>>, <<"a">>, <<"b", "c">>}

VARIABLES
    mono,      \* reading of time.monotonic()
    epoch,     \* time.time() - time.monotonic()
    ticks,     \* clock advances so far
    scen,      \* [tasks, limit, fallback]: request tasks that run, requests
               \* they may start, the keys the fallback sources hold
    admin,     \* where reload_keys is suspended, the keys it fetched, and
               \* counts of the admin operations so far
    db,        \* api_list rows: [api, status, usage_today, last_used_at]
    heap,      \* every KeyState object ever constructed
    POOL,      \* the global KeyPool: [states, n, idx], states are heap indices
    task,      \* per request task: where its handler is suspended
    pending,   \* per KeyState: update_usage_in_db tasks created and not yet run,
               \* each noted as the usage_day its mark_success left
    started,   \* client requests started so far
    ev,        \* what the last handler step did (observation of the step)
    acqTimes,  \* per KeyState: times of its acquisitions in the trailing minute
    acqDay,    \* per KeyState: acquisitions since the last UTC date change
    baseline,  \* per KeyState: day usage loaded from the datastore
    acqLog,    \* slots of the latest acquisitions that saw the same Ready slots
               \* with no failure in between, oldest first (the last MaxLog)
    acqReady   \* the Ready slots those acquisitions saw

vars == <<mono, epoch, ticks, scen, admin, db, heap, POOL, task, pending, started,
          ev, acqTimes, acqDay, baseline, acqLog, acqReady>>

Tasks == 1..MaxTasks

time_time == mono + epoch
utc_date(ts) == ts \div DaySeconds
today_date == utc_date(time_time)

Min(a, b) == IF a <= b THEN a ELSE b

\* --------------------------------------------------------------- strings
\* a str is a sequence of one-character strings
UpperChars == <<"A", "B", "C", "D", "E", "F", "G", "H", "I", "J", "K", "L", "M",
                "N", "O", "P", "Q", "R", "S", "T", "U", "V", "W", "X", "Y", "Z">>
LowerChars == <<"a", "b", "c", "d", "e", "f", "g", "h", "i", "j", "k", "l", "m",
                "n", "o", "p", "q", "r", "s", "t", "u", "v", "w", "x", "y", "z">>

\* c.lower() for every letter
LowerOf ==
    [c \in {UpperChars[i] : i \in 1..Len(UpperChars)} |->
        LowerChars[CHOOSE u \in 1..Len(UpperChars) : UpperChars[u] = c]]

\* str.lower()
lower(s) ==
    [i \in 1..Len(s) |-> IF s[i] \in DOMAIN LowerOf THEN LowerOf[s[i]] ELSE s[i]]

\* str.startswith(p), str.endswith(p)
startswith(s, p) == Len(p) <= Len(s) /\ SubSeq(s, 1, Len(p)) = p
endswith(s, p) == Len(p) <= Len(s) /\ SubSeq(s, Len(s) - Len(p) + 1, Len(s)) = p

\* p in s
contains(s, p) ==
    \E i \in 1..(Len(s) - Len(p) + 1) : SubSeq(s, i, i + Len(p) - 1) = p

\* str.split(): the words of s between runs of blanks; cur is the word being
\* read
RECURSIVE split_from(_, _, _)
split_from(s, i, cur) ==
    IF i > Len(s) THEN (IF cur = <<>> THEN <<>> ELSE <<cur>>)
    ELSE IF s[i] = " "
         THEN (IF cur = <<>> THEN <<>> ELSE <<cur>>) \o split_from(s, i + 1, <<>>)
         ELSE split_from(s, i + 1, Append(cur, s[i]))

split(s) == split_from(s, 1, <<>>)

\* s[:n]
prefix(s, n) == SubSeq(s, 1, Min(n, Len(s)))

\* the credentials stored in the api column of api_list, by row
KeyText ==
    << <<"A", "I", "z", "a", "S", "y", "A", "1", "x", "y">>,
       <<"A", "I", "z", "a", "S", "y", "B", "2", "x", "y">>,
       <<"k", "3">>,
       <<"A", "I", "z", "a", "S", "y", "A", "1", "z">> >>

\* the ADMIN_TOKEN of the environment
ADMIN_TOKEN == <<"a", "d", "m">>

\* key_state.key[:8]+"..." without the cut
key_preview_whole(key) == key \o <<".", ".", ".">>

\* key_state.key[:8]+"..."
key_preview(key) == prefix(key, 8) \o <<".", ".", ".">>

\* ------------------------------------------------------------------ JSON
\* a JSON value: t its type, s the text of a string, number or literal,
\* items the elements of an array or the [name, val] members of an object
JVal(t, str, items) == [t |-> t, s |-> str, items |-> items]
JFail == [ok |-> FALSE, val |-> JVal("none", <<>>, <<>>), pos |-> 0]
JOk(val, pos) == [ok |-> TRUE, val |-> val, pos |-> pos]

Digits == {"0", "1", "2", "3", "4", "5", "6", "7", "8", "9"}
Literals == {<<"t", "r", "u", "e">>, <<"f", "a", "l", "s", "e">>,
             <<"n", "u", "l", "l">>}

RECURSIVE skip_ws(_, _)
skip_ws(s, i) == IF i <= Len(s) /\ s[i] = " " THEN skip_ws(s, i + 1) ELSE i

\* the index of the quote that closes the string whose text starts at i, 0
\* when there is none (texts without escapes)
RECURSIVE string_end(_, _)
string_end(s, i) ==
    IF i > Len(s) \/ s[i] = "\\" THEN 0
    ELSE IF s[i] = "\"" THEN i
    ELSE string_end(s, i + 1)

\* the index after the digits that start at i
RECURSIVE digits_end(_, _)
digits_end(s, i) ==
    IF i <= Len(s) /\ s[i] \in Digits THEN digits_end(s, i + 1) ELSE i

\* d[name] = val of a dict kept as a sequence of members
obj_set(items, name, val) ==
    IF \E k \in 1..Len(items) : items[k].name = name
    THEN [k \in 1..Len(items) |->
             IF items[k].name = name THEN [name |-> name, val |-> val]
             ELSE items[k]]
    ELSE Append(items, [name |-> name, val |-> val])

obj_has(items, name) == \E k \in 1..Len(items) : items[k].name = name
obj_get(items, name) ==
    items[CHOOSE k \in 1..Len(items) : items[k].name = name].val

RECURSIVE parse_value(_, _)
RECURSIVE parse_members(_, _, _, _)
RECURSIVE parse_elements(_, _, _, _)

\* an object after the member read last: n the index of the next token
member_next(s, n, acc) ==
    IF n > Len(s) THEN JFail
    ELSE IF s[n] = "," THEN parse_members(s, n + 1, acc, FALSE)
    ELSE IF s[n] = "}" THEN JOk(JVal("obj", <<>>, acc), n + 1)
    ELSE JFail

\* the member name with the result v of parsing its value
member_value(s, name, v, acc) ==
    IF ~v.ok THEN JFail
    ELSE member_next(s, skip_ws(s, v.pos), obj_set(acc, name, v.val))

\* the member whose name string opens at i and closes at e
member_name(s, i, e, acc) ==
    IF e = 0 THEN JFail
    ELSE IF skip_ws(s, e + 1) > Len(s) \/ s[skip_ws(s, e + 1)] # ":" THEN JFail
    ELSE member_value(s, SubSeq(s, i + 1, e - 1),
                      parse_value(s, skip_ws(s, e + 1) + 1), acc)

members_at(s, i, acc, first) ==
    IF i > Len(s) THEN JFail
    ELSE IF first /\ s[i] = "}" THEN JOk(JVal("obj", <<>>, acc), i + 1)
    ELSE IF s[i] # "\"" THEN JFail
    ELSE member_name(s, i, string_end(s, i + 1), acc)

\* the members of an object from index i0 on; first: none was read yet
parse_members(s, i0, acc, first) == members_at(s, skip_ws(s, i0), acc, first)

\* an array after the element read last: n the index of the next token
element_next(s, n, acc) ==
    IF n > Len(s) THEN JFail
    ELSE IF s[n] = "," THEN parse_elements(s, n + 1, acc, FALSE)
    ELSE IF s[n] = "]" THEN JOk(JVal("arr", <<>>, acc), n + 1)
    ELSE JFail

element_value(s, v, acc) ==
    IF ~v.ok THEN JFail
    ELSE element_next(s, skip_ws(s, v.pos), Append(acc, v.val))

elements_at(s, i, acc, first) ==
    IF i > Len(s) THEN JFail
    ELSE IF first /\ s[i] = "]" THEN JOk(JVal("arr", <<>>, acc), i + 1)
    ELSE element_value(s, parse_value(s, i), acc)

\* the elements of an array from index i0 on
parse_elements(s, i0, acc, first) == elements_at(s, skip_ws(s, i0), acc, first)

\* the string whose text opens after i and closes at e
string_at(s, i, e) ==
    IF e = 0 THEN JFail
    ELSE JOk(JVal("str", SubSeq(s, i + 1, e - 1), <<>>), e + 1)

\* the number that starts at i: d the index of its first digit, e the index
\* after its last
number_at(s, i, d, e) ==
    IF e = d THEN JFail ELSE JOk(JVal("num", SubSeq(s, i, e - 1), <<>>), e)

literal_at(rest, i) ==
    IF \E l \in Literals : startswith(rest, l)
    THEN JOk(JVal("lit", CHOOSE l \in Literals : startswith(rest, l), <<>>),
             i + Len(CHOOSE l \in Literals : startswith(rest, l)))
    ELSE JFail

value_at(s, i) ==
    IF i > Len(s) THEN JFail
    ELSE IF s[i] = "\"" THEN string_at(s, i, string_end(s, i + 1))
    ELSE IF s[i] = "{" THEN parse_members(s, i + 1, <<>>, TRUE)
    ELSE IF s[i] = "[" THEN parse_elements(s, i + 1, <<>>, TRUE)
    ELSE IF s[i] = "-"
    THEN number_at(s, i, i + 1,
                   IF i + 1 <= Len(s) /\ s[i + 1] = "0" THEN i + 2
                   ELSE digits_end(s, i + 1))
    ELSE IF s[i] \in Digits
    THEN number_at(s, i, i, IF s[i] = "0" THEN i + 1 ELSE digits_end(s, i))
    ELSE literal_at(SubSeq(s, i, Len(s)), i)

\* the value that starts at index i0 (after blanks)
parse_value(s, i0) == value_at(s, skip_ws(s, i0))

\* one value and nothing after it
whole_value(s, v) == IF v.ok /\ skip_ws(s, v.pos) > Len(s) THEN v ELSE JFail

\* json.loads(content.decode())
json_loads(s) == whole_value(s, parse_value(s, 1))

\* json.dumps(value): ", " between items and ": " after a name
RECURSIVE json_dumps(_)
RECURSIVE dumps_items(_, _, _)
dumps_items(items, k, isobj) ==
    IF k > Len(items) THEN <<>>
    ELSE (IF k > 1 THEN <<",", " ">> ELSE <<>>)
         \o (IF isobj
             THEN <<"\"">> \o items[k].name \o <<"\"", ":", " ">>
                  \o json_dumps(items[k].val)
             ELSE json_dumps(items[k]))
         \o dumps_items(items, k + 1, isobj)

json_dumps(v) ==
    IF v.t = "str" THEN <<"\"">> \o v.s \o <<"\"">>
    ELSE IF v.t = "obj" THEN <<"{">> \o dumps_items(v.items, 1, TRUE) \o <<"}">>
    ELSE IF v.t = "arr" THEN <<"[">> \o dumps_items(v.items, 1, FALSE) \o <<"]">>
    ELSE v.s

\* ---------------------------------------------------------- body rewrite
S_model == <<"m", "o", "d", "e", "l">>
S_stream == <<"s", "t", "r", "e", "a", "m">>
ALIAS_PRO == <<"s", "a", "l", "e", "s", "m", "a", "n", "c", "h", "a", "t", "b", "o",
      "t", "-", "p", "r", "o">>
ALIAS_FLASH == <<"s", "a", "l", "e", "s", "m", "a", "n", "c", "a", "h", "t", "b", "o",
      "t", "-", "f", "l", "a", "s", "h">>
BACKEND_MODEL == <<"g", "e", "m", "i", "n", "i", "-", "2", ".", "5", "-", "f", "l", "a",
      "s", "h">>

\* isinstance(j, dict) and j.get("stream") is True
says_stream(j) ==
    /\ j.ok
    /\ j.val.t = "obj"
    /\ obj_has(j.val.items, S_stream)
    /\ obj_get(j.val.items, S_stream) = JVal("lit", <<"t", "r", "u", "e">>, <<>>)

\* the test detect_stream_from_request makes of the content
body_says_stream(content) == content # <<>> /\ says_stream(json_loads(content))

\* whether the try block of the body rewrite raises: "model" in body_json
\* and body_json["model"] on a value that is no dict
rewrite_raises(v) ==
    \/ v.t \in {"num", "lit"}
    \/ v.t = "str" /\ contains(v.s, S_model)
    \/ v.t = "arr" /\ \E k \in 1..Len(v.items) :
                         v.items[k] = JVal("str", S_model, <<>>)

\* body_json["model"] in aliases
model_in(v, aliases) ==
    /\ v.t = "obj"
    /\ obj_has(v.items, S_model)
    /\ obj_get(v.items, S_model).t = "str"
    /\ obj_get(v.items, S_model).s \in aliases

\* the try block on the parsed content j when aliases are rewritten
rewritten(content, j, aliases) ==
    IF ~j.ok THEN content
    ELSE IF rewrite_raises(j.val) THEN content
    ELSE IF model_in(j.val, aliases)
    THEN json_dumps([j.val EXCEPT !.items =
                        obj_set(j.val.items, S_model,
                                JVal("str", BACKEND_MODEL, <<>>))])
    ELSE json_dumps(j.val)

\* the body rewrite with salesmanchatbot-pro as the only alias
rewrite_body_one_alias(content) ==
    IF content = <<>> THEN content
    ELSE rewritten(content, json_loads(content), {ALIAS_PRO})

\* body_to_send of catch_all's loop (ENABLE_THINKING_CHAIN is False)
rewrite_body(content) ==
    IF content = <<>> THEN content
    ELSE rewritten(content, json_loads(content), {ALIAS_PRO, ALIAS_FLASH})

\* request bodies
B_alias ==
    <<"{", "\"", "m", "o", "d", "e", "l", "\"", ":", "\"", "s", "a", "l",
      "e", "s", "m", "a", "n", "c", "h", "a", "t", "b", "o", "t", "-",
      "p", "r", "o", "\"", ",", "\"", "m", "e", "s", "s", "a", "g", "e",
      "s", "\"", ":", "[", "{", "\"", "r", "o", "l", "e", "\"", ":",
      "\"", "u", "s", "e", "r", "\"", ",", "\"", "c", "o", "n", "t", "e",
      "n", "t", "\"", ":", "\"", "h", "i", "\"", "}", "]", ",", "\"",
      "s", "t", "r", "e", "a", "m", "\"", ":", "f", "a", "l", "s", "e",
      "}">>
B_alias_flash ==
    <<"{", "\"", "m", "o", "d", "e", "l", "\"", ":", "\"", "s", "a", "l",
      "e", "s", "m", "a", "n", "c", "a", "h", "t", "b", "o", "t", "-",
      "f", "l", "a", "s", "h", "\"", ",", "\"", "n", "\"", ":", "1", "}">>
B_other ==
    <<"{", "\"", "m", "o", "d", "e", "l", "\"", ":", "\"", "g", "p", "t",
      "-", "4", "\"", ",", "\"", "n", "\"", ":", "1", "}">>
B_nested ==
    <<"{", "\"", "n", "\"", ":", "{", "\"", "m", "o", "d", "e", "l", "\"",
      ":", "\"", "s", "a", "l", "e", "s", "m", "a", "n", "c", "h", "a",
      "t", "b", "o", "t", "-", "p", "r", "o", "\"", "}", "}">>
B_spaced ==
    <<"{", " ", "\"", "n", "\"", " ", ":", " ", "1", " ", ",", " ", "\"",
      "m", "o", "d", "e", "l", "\"", " ", ":", " ", "\"", "s", "a", "l",
      "e", "s", "m", "a", "n", "c", "h", "a", "t", "b", "o", "t", "-",
      "p", "r", "o", "\"", " ", "}">>
B_invalid ==
    <<"{", "\"", "m", "o", "d", "e", "l", "\"", ":", "\"", "s", "a", "l",
      "e", "s", "m", "a", "n", "c", "h", "a", "t", "b", "o", "t", "-",
      "p", "r", "o", "\"">>
B_array ==
    <<"[", "\"", "m", "o", "d", "e", "l", "\"", "]">>
B_number == <<"7">>
\* {"rpm":1,"rph":1,"rpd":1}
B_config ==
    <<"{", "\"", "r", "p", "m", "\"", ":", "1", ",",
      "\"", "r", "p", "h", "\"", ":", "1", ",",
      "\"", "r", "p", "d", "\"", ":", "1", "}">>

B_stream ==
    <<"{", "\"", "m", "o", "d", "e", "l", "\"", ":", "\"", "s", "a", "l",
      "e", "s", "m", "a", "n", "c", "h", "a", "t", "b", "o", "t", "-",
      "p", "r", "o", "\"", ",", "\"", "s", "t", "r", "e", "a", "m", "\"",
      ":", "t", "r", "u", "e", "}">>

\* ----------------------------------------------------------- the request
NoVal == <<>>
NoHeaders == <<>>
Bearer(token) == <<"B", "e", "a", "r", "e", "r", " ">> \o token

\* header names as clients write them
H_Authorization == <<"A", "u", "t", "h", "o", "r", "i", "z", "a", "t", "i", "o", "n">>
H_authorization == <<"a", "u", "t", "h", "o", "r", "i", "z", "a", "t", "i", "o", "n">>
H_HOST == <<"H", "O", "S", "T">>
H_Content_Length == <<"C", "o", "n", "t", "e", "n", "t", "-", "L", "e", "n", "g", "t", "h">>
H_connection == <<"c", "o", "n", "n", "e", "c", "t", "i", "o", "n">>
H_Transfer_Encoding == <<"T", "r", "a", "n", "s", "f", "e", "r", "-", "E", "n", "c", "o", "d", "i", "n", "g">>
H_Content_Type == <<"C", "o", "n", "t", "e", "n", "t", "-", "T", "y", "p", "e">>
H_content_type == <<"c", "o", "n", "t", "e", "n", "t", "-", "t", "y", "p", "e">>
H_X_Trace == <<"X", "-", "T", "r", "a", "c", "e">>
JsonType == <<"a", "p", "p", "l", "i", "c", "a", "t", "i", "o", "n", "/", "j", "s", "o", "n">>

\* client paths (request.url.path without its leading slash)
P_v1_chat == <<"v", "1", "/", "c", "h", "a", "t", "/", "c", "o", "m", "p", "l", "e", "t", "i", "o", "n", "s">>
P_chat == <<"c", "h", "a", "t", "/", "c", "o", "m", "p", "l", "e", "t", "i", "o", "n", "s">>
P_v1_models == <<"v", "1", "/", "m", "o", "d", "e", "l", "s">>
P_models == <<"m", "o", "d", "e", "l", "s">>
P_models_x == <<"m", "o", "d", "e", "l", "s", "/", "x">>
P_x_chat == <<"x", "/", "c", "h", "a", "t", "/", "c", "o", "m", "p", "l", "e", "t", "i", "o", "n", "s">>
P_foo == <<"f", "o", "o">>
P_health == <<"h", "e", "a", "l", "t", "h">>
P_status == <<"s", "t", "a", "t", "u", "s">>
P_reload_keys == <<"r", "e", "l", "o", "a", "d", "-", "k", "e", "y", "s">>
P_admin_config == <<"a", "d", "m", "i", "n", "/", "c", "o", "n", "f", "i", "g">>

\* a request: what the client sent
Req(method, path, headers, qkey, qstream, body_stream) ==
    [method |-> method, path |-> path, headers |-> headers, cookie |-> NoVal,
     qkey |-> qkey, qstream |-> qstream, body_stream |-> body_stream,
     body |-> NoVal]

\* a request with content that presents the admin token
ReqBody(method, path, content) ==
    [Req(method, path, H_Authorization :> Bearer(ADMIN_TOKEN), NoVal, NoVal,
         body_says_stream(content)) EXCEPT !.body = content]

NoRequest == Req("", <<>>, NoHeaders, NoVal, NoVal, FALSE)

\* the requests clients send; tasks and events name a request by its index
Requests ==
    << \* 1, 2: POST /v1/chat/completions presenting the admin token
       Req("POST", P_v1_chat, H_Authorization :> Bearer(ADMIN_TOKEN),
           NoVal, NoVal, FALSE),
       ReqBody("POST", P_v1_chat, B_stream),
       \* 3: lower-case names, hop-by-hop headers and a content type
       Req("POST", P_chat,
           (H_authorization :> (<<"b", "e", "a", "r", "e", "r", " ">> \o ADMIN_TOKEN))
           @@ (H_HOST :> <<"h">>) @@ (H_Content_Length :> <<"2">>)
           @@ (H_connection :> <<"c">>) @@ (H_Transfer_Encoding :> <<"t">>)
           @@ (H_X_Trace :> <<"x">>) @@ (H_Content_Type :> <<"y">>),
           NoVal, NoVal, FALSE),
       \* 4: the credential of row 1 in the query string, stream=true
       Req("POST", P_v1_chat, NoHeaders, KeyText[1], <<"t", "r", "u", "e">>, FALSE),
       \* 5: no credential
       Req("POST", P_v1_chat, NoHeaders, NoVal, NoVal, FALSE),
       \* 6, 7: another scheme, a header of one word
       Req("POST", P_v1_chat, H_Authorization :> (<<"B", "a", "s", "i", "c", " ">> \o ADMIN_TOKEN),
           NoVal, NoVal, FALSE),
       Req("POST", P_v1_chat, H_Authorization :> <<"B", "e", "a", "r", "e", "r">>,
           NoVal, NoVal, FALSE),
       \* 8: a token that is no credential
       Req("POST", P_v1_chat, H_Authorization :> Bearer(<<"n", "o", "p", "e">>),
           NoVal, NoVal, FALSE),
       \* 9: the credential of row 2
       Req("POST", P_v1_chat, H_Authorization :> Bearer(KeyText[2]),
           NoVal, NoVal, FALSE),
       \* 10, 11, 12: GET on models paths
       Req("GET", P_v1_models, H_Authorization :> Bearer(ADMIN_TOKEN),
           NoVal, NoVal, FALSE),
       Req("GET", P_models_x, H_Authorization :> Bearer(ADMIN_TOKEN),
           NoVal, NoVal, FALSE),
       Req("GET", P_models, NoHeaders, NoVal, NoVal, FALSE),
       \* 13: POST on a models path
       Req("POST", P_models, H_Authorization :> Bearer(ADMIN_TOKEN),
           NoVal, NoVal, FALSE),
       \* 14: GET on a path that ends in chat/completions, no credential
       Req("GET", P_x_chat, NoHeaders, NoVal, NoVal, FALSE),
       \* 15, 16: a path that is no proxy path
       Req("POST", P_foo, H_Authorization :> Bearer(ADMIN_TOKEN),
           NoVal, NoVal, FALSE),
       Req("POST", P_foo, NoHeaders, NoVal, NoVal, FALSE),
       \* 17: a local path with a method its own route does not take
       Req("POST", P_health, NoHeaders, NoVal, NoVal, FALSE),
       \* 18: GET /v1/chat/completions
       Req("GET", P_v1_chat, H_Authorization :> Bearer(ADMIN_TOKEN),
           NoVal, NoVal, FALSE),
       \* 19: another scheme in the header, the admin token in the query
       Req("POST", P_v1_chat, H_Authorization :> (<<"B", "a", "s", "i", "c", " ">> \o ADMIN_TOKEN),
           ADMIN_TOKEN, NoVal, FALSE),
       \* 20, 21: GET /status with and without the admin session cookie
       [Req("GET", P_status, NoHeaders, NoVal, NoVal, FALSE)
            EXCEPT !.cookie = ADMIN_TOKEN],
       Req("GET", P_status, NoHeaders, NoVal, NoVal, FALSE),
       \* 22: POST on a models path with stream=true in the query string
       Req("POST", P_v1_models, H_Authorization :> Bearer(ADMIN_TOKEN),
           NoVal, <<"t", "r", "u", "e">>, FALSE),
       \* 23, 24: POST /reload-keys with and without the admin session cookie
       [Req("POST", P_reload_keys, NoHeaders, NoVal, NoVal, FALSE)
            EXCEPT !.cookie = ADMIN_TOKEN],
       Req("POST", P_reload_keys, NoHeaders, NoVal, NoVal, FALSE),
       \* 25..32: POST /v1/chat/completions with content
       ReqBody("POST", P_v1_chat, B_alias),
       ReqBody("POST", P_v1_chat, B_alias_flash),
       ReqBody("POST", P_v1_chat, B_other),
       ReqBody("POST", P_v1_chat, B_nested),
       ReqBody("POST", P_v1_chat, B_spaced),
       ReqBody("POST", P_v1_chat, B_invalid),
       ReqBody("POST", P_v1_chat, B_array),
       ReqBody("POST", P_v1_chat, B_number),
       \* 33: POST on a models path with content
       ReqBody("POST", P_models, B_alias),
       \* 34: an admin session asks for new global limits
       [Req("PUT", P_admin_config, NoHeaders, NoVal, NoVal, FALSE)
            EXCEPT !.cookie = ADMIN_TOKEN, !.body = B_config] >>

\* the requests that reach catch_all when the middleware lets them pass, and
\* those that reach get_status
ProxyRequests == 1..19
StatusRequests == {20, 21}
ReloadRequests == {23, 24}
ConfigRequests == {34}
\* requests with and without content on the paths that dispatch upstream
RewriteRequests == {1, 2, 13, 22} \cup (25..33)

NoReq == 0
DefaultRequest(is_stream) == IF is_stream THEN 2 ELSE 1

\* request.headers: the server hands header names over in lower case
request_headers(client_headers) ==
    [n \in {lower(k) : k \in DOMAIN client_headers} |->
        client_headers[CHOOSE k \in DOMAIN client_headers : lower(k) = n]]

\* request.headers.get(name)
headers_get(hs, name) ==
    IF lower(name) \in DOMAIN hs THEN hs[lower(name)] ELSE NoVal

\* detect_stream_from_request
detect_stream_from_request(body_stream, qp) ==
    qp \in {<<"t", "r", "u", "e">>, <<"T", "r", "u", "e">>, <<"1">>} \/ body_stream

\* ------------------------------------------------------------- datastore
load_keys_from_postgres(rows) ==
    LET act == SelectSeq(rows, LAMBDA r : r.status = "active")
    IN [i \in 1..Len(act) |->
           [key |-> act[i].api, usage_day |-> act[i].usage_today,
            last_used |-> act[i].last_used_at]]

\* keys = await load_keys_from_postgres(); if not keys: the Supabase table;
\* if not keys: api_keys.txt
load_keys(keys, fallback) == IF keys # <<>> THEN keys ELSE fallback

\* -------------------------------------------------------------- KeyState
\* KeyState.__init__ that takes the day usage of the row whatever its date
KeyState_init_trusts_row(key_data, now_ts, today) ==
    [key |-> key_data.key,
     backoff |-> 0,
     banned_until |-> 0,
     success |-> 0,
     fail |-> 0,
     rpm_limit |-> DEFAULT_RPM,
     rpd_limit |-> DEFAULT_RPD,
     usage_minute |-> 0,
     minute_start_time |-> now_ts,
     usage_day |-> key_data.usage_day,
     last_check_date |-> today]

KeyState_init(key_data, now_ts, today) ==
    [key |-> key_data.key,
     backoff |-> 0,
     banned_until |-> 0,
     success |-> 0,
     fail |-> 0,
     rpm_limit |-> DEFAULT_RPM,
     rpd_limit |-> DEFAULT_RPD,
     usage_minute |-> 0,
     minute_start_time |-> now_ts,
     usage_day |-> IF key_data.last_used # NoDate /\ key_data.last_used < today
                   THEN 0 ELSE key_data.usage_day,
     last_check_date |-> today]

\* is_available without the reset on a new UTC date
is_available_no_rollover(st, now_ts, today) ==
    LET s2 == IF now_ts - st.minute_start_time >= MinuteSeconds
              THEN [st EXCEPT !.usage_minute = 0, !.minute_start_time = now_ts]
              ELSE st
    IN  IF now_ts < st.banned_until THEN [ok |-> FALSE, st |-> st]
        ELSE IF s2.usage_minute >= s2.rpm_limit THEN [ok |-> FALSE, st |-> s2]
        ELSE IF s2.usage_day >= s2.rpd_limit THEN [ok |-> FALSE, st |-> s2]
        ELSE [ok |-> TRUE, st |-> s2]

\* is_available that never starts a new minute window
is_available_no_expiry(st, now_ts, today) ==
    LET s1 == IF today > st.last_check_date
              THEN [st EXCEPT !.usage_day = 0, !.last_check_date = today]
              ELSE st
    IN  IF now_ts < s1.banned_until THEN [ok |-> FALSE, st |-> s1]
        ELSE IF s1.usage_minute >= s1.rpm_limit THEN [ok |-> FALSE, st |-> s1]
        ELSE IF s1.usage_day >= s1.rpd_limit THEN [ok |-> FALSE, st |-> s1]
        ELSE [ok |-> TRUE, st |-> s1]

\* is_available both answers and mutates: [ok, st]
is_available(st, now_ts, today) ==
    LET s1 == IF today > st.last_check_date
              THEN [st EXCEPT !.usage_day = 0, !.last_check_date = today]
              ELSE st
        s2 == IF now_ts - s1.minute_start_time >= MinuteSeconds
              THEN [s1 EXCEPT !.usage_minute = 0, !.minute_start_time = now_ts]
              ELSE s1
    IN  IF now_ts < s1.banned_until THEN [ok |-> FALSE, st |-> s1]
        ELSE IF s2.usage_minute >= s2.rpm_limit THEN [ok |-> FALSE, st |-> s2]
        ELSE IF s2.usage_day >= s2.rpd_limit THEN [ok |-> FALSE, st |-> s2]
        ELSE [ok |-> TRUE, st |-> s2]

\* mark_success that leaves the ban in place
mark_success_keeps_ban(st) ==
    [st EXCEPT !.backoff = 0,
               !.success = st.success + 1,
               !.usage_minute = st.usage_minute + 1,
               !.usage_day = st.usage_day + 1]

mark_success(st) ==
    [st EXCEPT !.backoff = 0,
               !.banned_until = 0,
               !.success = st.success + 1,
               !.usage_minute = st.usage_minute + 1,
               !.usage_day = st.usage_day + 1]

\* mark_failure without the BACKOFF_MAX cap
mark_failure_uncapped(st, monotonic) ==
    LET b == IF st.backoff <= 0 THEN BACKOFF_MIN ELSE st.backoff * 2
    IN [st EXCEPT !.backoff = b,
                  !.banned_until = monotonic + b,
                  !.fail = st.fail + 1]

mark_failure(st, monotonic) ==
    LET b == IF st.backoff <= 0 THEN BACKOFF_MIN
             ELSE Min(BACKOFF_MAX, st.backoff * 2)
    IN [st EXCEPT !.backoff = b,
                  !.banned_until = monotonic + b,
                  !.fail = st.fail + 1]

\* --------------------------------------------------------------- KeyPool
\* KeyPool(keys_data), its KeyStates allocated on h: [heap, pool]
KeyPool_init(h, keys_data, now_ts, today) ==
    [heap |-> h \o [i \in 1..Len(keys_data) |->
                       KeyState_init(keys_data[i], now_ts, today)],
     pool |-> [states |-> [i \in 1..Len(keys_data) |-> Len(h) + i],
               n |-> Len(keys_data),
               idx |-> 0]]

\* the for loop of next_available from its i-th iteration on
RECURSIVE scan(_, _, _, _, _)
scan(h, pool, i, now_ts, today) ==
    IF i >= pool.n
    THEN [heap |-> h, pool |-> pool, st |-> NoKey, slot |-> 0]
    ELSE LET j == (pool.idx + i) % pool.n
             id == pool.states[j + 1]
             r == is_available(h[id], now_ts, today)
             h2 == [h EXCEPT ![id] = r.st]
         IN IF r.ok
            THEN [heap |-> h2, pool |-> [pool EXCEPT !.idx = (j + 1) % pool.n],
                  st |-> id, slot |-> j]
            ELSE scan(h2, pool, i + 1, now_ts, today)

\* next_available that does not move the cursor
next_available_cursor_stuck(h, pool, now_ts, today) ==
    [scan(h, pool, 0, now_ts, today) EXCEPT !.pool = pool]

\* next_available that starts every scan at slot 0
next_available_from_zero(h, pool, now_ts, today) ==
    LET r == scan(h, [pool EXCEPT !.idx = 0], 0, now_ts, today)
    IN [r EXCEPT !.pool = pool]

\* next_available that moves the cursor when it finds no key
next_available_moves_on_none(h, pool, now_ts, today) ==
    IF scan(h, pool, 0, now_ts, today).st = NoKey /\ pool.n > 0
    THEN [scan(h, pool, 0, now_ts, today) EXCEPT
             !.pool = [pool EXCEPT !.idx = (pool.idx + 1) % pool.n]]
    ELSE scan(h, pool, 0, now_ts, today)

\* next_available that sets the cursor to j + 1 without the modulo
next_available_no_wrap(h, pool, now_ts, today) ==
    IF scan(h, pool, 0, now_ts, today).st = NoKey
    THEN scan(h, pool, 0, now_ts, today)
    ELSE [scan(h, pool, 0, now_ts, today) EXCEPT
             !.pool = [pool EXCEPT !.idx = scan(h, pool, 0, now_ts, today).slot + 1]]

next_available(h, pool, now_ts, today) == scan(h, pool, 0, now_ts, today)

\* the slots whose KeyState would pass is_available now
ReadySlots(h, pool, now_ts, today) ==
    {j \in 0..(pool.n - 1) : is_available(h[pool.states[j + 1]], now_ts, today).ok}

\* ------------------------------------------------------------- Forwarder
\* the statuses that count as a failure of the egress proxy
FAILURE_CODES_proxy == {502, 503, 407}

FAILURE_CODES == {429, 403, 500, 502, 503}
NoResp == [status |-> 0, ctype |-> NoCT, body |-> ""]
NoUp == [kind |-> "none", status |-> 0, ctype |-> NoCT, body |-> ""]

\* forward_response that answers application/json whatever upstream sent
forward_response_json(st, up, monotonic) ==
    [st |-> IF up.status \in FAILURE_CODES THEN mark_failure(st, monotonic)
            ELSE mark_success(st),
     mark |-> IF up.status \in FAILURE_CODES THEN "failure" ELSE "success",
     resp |-> [status |-> up.status, ctype |-> "application/json",
               body |-> up.body]]

\* forward_response that marks a failure on every 4xx and 5xx status
forward_response_all_errors(st, up, monotonic) ==
    [st |-> IF up.status >= 400 THEN mark_failure(st, monotonic)
            ELSE mark_success(st),
     mark |-> IF up.status >= 400 THEN "failure" ELSE "success",
     resp |-> [status |-> up.status,
               ctype |-> IF up.ctype = NoCT THEN "application/json" ELSE up.ctype,
               body |-> up.body]]

\* try_forward_to_upstream, not streaming, upstream answered: [st, mark, resp]
forward_response(st, up, monotonic) ==
    [st |-> IF up.status \in FAILURE_CODES THEN mark_failure(st, monotonic)
            ELSE mark_success(st),
     mark |-> IF up.status \in FAILURE_CODES THEN "failure" ELSE "success",
     resp |-> [status |-> up.status,
               ctype |-> IF up.ctype = NoCT THEN "application/json" ELSE up.ctype,
               body |-> up.body]]

\* the httpx.RequestError branch without its mark_failure
forward_request_error_unmarked(st, monotonic) ==
    [st |-> st,
     mark |-> "failure",
     resp |-> [status |-> 502, ctype |-> "application/json",
               body |-> "Upstream connection failed"]]

\* try_forward_to_upstream, not streaming, httpx.RequestError: [st, mark, resp]
forward_request_error(st, monotonic) ==
    [st |-> mark_failure(st, monotonic),
     mark |-> "failure",
     resp |-> [status |-> 502, ctype |-> "application/json",
               body |-> "Upstream connection failed"]]


\* ------------------------------------------------------ validate_api_key
PUBLIC_PATHS ==
    {<<"/", "h", "e", "a", "l", "t", "h">>,
     <<"/", "f", "a", "v", "i", "c", "o", "n", ".", "i", "c", "o">>,
     <<"/", "a", "d", "m", "i", "n", "/", "l", "o", "g", "i", "n">>,
     <<"/", "a", "d", "m", "i", "n", "/", "l", "o", "g", "o", "u", "t">>,
     <<"/", "v", "1">>}

Json(status, body) ==
    [status |-> status, ctype |-> "application/json", body |-> body]

RedirectResponse(url) == [status |-> 307, ctype |-> NoCT, body |-> url]

is_authenticated(req) == req.cookie = ADMIN_TOKEN

\* the middleware when it reads the credential from the header only
validate_api_key_header_only(req, h, pool) ==
    LET path == <<"/">> \o req.path
        auth_header == headers_get(request_headers(req.headers), H_Authorization)
        words == split(auth_header)
        api_key == IF auth_header = NoVal THEN NoVal ELSE words[2]
        is_valid_key ==
            \/ api_key = ADMIN_TOKEN
            \/ \E i \in 1..Len(pool.states) : h[pool.states[i]].key = api_key
    IN IF path \in PUBLIC_PATHS THEN NoResp
       ELSE IF endswith(path, P_chat) /\ req.method = "GET" THEN NoResp
       ELSE IF path = <<"/">> THEN RedirectResponse("/admin/login")
       ELSE IF startswith(path, <<"/", "a", "d", "m", "i", "n">>)
               \/ path \in {<<"/", "s", "t", "a", "t", "u", "s">>, <<"/", "r", "e", "l", "o", "a", "d", "-", "k", "e", "y", "s">>}
       THEN (IF is_authenticated(req) THEN NoResp
             ELSE RedirectResponse("/admin/login"))
       ELSE IF auth_header # NoVal /\ Len(words) # 2
       THEN Json(401, "Invalid Authorization header format.")
       ELSE IF auth_header # NoVal /\ lower(words[1]) # <<"b", "e", "a", "r", "e", "r">>
       THEN Json(401, "Invalid auth scheme. Use Bearer.")
       ELSE IF api_key = NoVal THEN Json(401, "Missing API Key.")
       ELSE IF ~is_valid_key THEN Json(403, "Access Denied. Invalid API Key.")
       ELSE NoResp

\* the middleware: NoResp when the request is passed on to its handler, else
\* the response the middleware gives itself
validate_api_key(req, h, pool) ==
    LET path == <<"/">> \o req.path
        auth_header == headers_get(request_headers(req.headers), H_Authorization)
        words == split(auth_header)
        api_key == IF auth_header = NoVal THEN req.qkey ELSE words[2]
        is_valid_key ==
            \/ api_key = ADMIN_TOKEN
            \/ \E i \in 1..Len(pool.states) : h[pool.states[i]].key = api_key
    IN IF path \in PUBLIC_PATHS THEN NoResp
       ELSE IF endswith(path, P_chat) /\ req.method = "GET" THEN NoResp
       ELSE IF path = <<"/">> THEN RedirectResponse("/admin/login")
       ELSE IF startswith(path, <<"/", "a", "d", "m", "i", "n">>)
               \/ path \in {<<"/", "s", "t", "a", "t", "u", "s">>, <<"/", "r", "e", "l", "o", "a", "d", "-", "k", "e", "y", "s">>}
       THEN (IF is_authenticated(req) THEN NoResp
             ELSE RedirectResponse("/admin/login"))
       ELSE IF auth_header # NoVal /\ Len(words) # 2
       THEN Json(401, "Invalid Authorization header format.")
       ELSE IF auth_header # NoVal /\ lower(words[1]) # <<"b", "e", "a", "r", "e", "r">>
       THEN Json(401, "Invalid auth scheme. Use Bearer.")
       ELSE IF api_key = NoVal THEN Json(401, "Missing API Key.")
       ELSE IF ~is_valid_key THEN Json(403, "Access Denied. Invalid API Key.")
       ELSE NoResp

\* ------------------------------------------------------ catch_all routing
LOCAL_PATHS ==
    {<<>>,
     <<"h", "e", "a", "l", "t", "h">>,
     <<"s", "t", "a", "t", "u", "s">>,
     <<"r", "e", "l", "o", "a", "d", "-", "k", "e", "y", "s">>,
     <<"f", "a", "v", "i", "c", "o", "n", ".", "i", "c", "o">>,
     <<"a", "d", "m", "i", "n">>,
     <<"a", "d", "m", "i", "n", "/", "l", "o", "g", "i", "n">>,
     <<"a", "d", "m", "i", "n", "/", "l", "o", "g", "o", "u", "t">>,
     <<"v", "1">>}

VALID_PREFIXES ==
    {<<"v", "1", "/", "c", "h", "a", "t", "/", "c", "o", "m", "p", "l", "e", "t", "i", "o", "n", "s">>,
     <<"v", "1", "/", "m", "o", "d", "e", "l", "s">>,
     <<"c", "h", "a", "t", "/", "c", "o", "m", "p", "l", "e", "t", "i", "o", "n", "s">>,
     <<"m", "o", "d", "e", "l", "s">>,
     <<"a", "p", "i", "/", "e", "x", "t", "e", "r", "n", "a", "l", "/", "v", "1">>}

\* the models test without the paths below models/
is_models_path_exact(full_path) ==
    LET p_normal == IF startswith(full_path, <<"v", "1", "/">>)
                    THEN SubSeq(full_path, 4, Len(full_path)) ELSE full_path
    IN p_normal = P_models

\* p_normal == "models" or p_normal.startswith("models/")
is_models_path(full_path) ==
    LET p_normal == IF startswith(full_path, <<"v", "1", "/">>)
                    THEN SubSeq(full_path, 4, Len(full_path)) ELSE full_path
    IN p_normal = P_models \/ startswith(p_normal, <<"m", "o", "d", "e", "l", "s", "/">>)

\* which branch of catch_all answers the request
catch_all_route(req) ==
    IF req.path \in LOCAL_PATHS THEN "not_found_local"
    ELSE IF endswith(req.path, P_chat) /\ req.method = "GET" THEN "info"
    ELSE IF ~\E p \in VALID_PREFIXES : startswith(req.path, p) THEN "not_found"
    ELSE IF is_models_path(req.path)
    THEN (IF req.method = "GET" THEN "models_list" ELSE "models_forward")
    ELSE "execute"

\* the responses catch_all gives without a key
local_response(route) ==
    IF route = "not_found_local" THEN Json(404, "Not Found")
    ELSE IF route = "not_found" THEN Json(404, "Path not found on this server.")
    ELSE IF route = "info" THEN Json(200, "SalesmenChatbot LLM is working.")
    ELSE Json(200, "salesmanchatbot-pro")

\* ------------------------------------------------------ forwarded headers
HOP_HEADERS ==
    {<<"h", "o", "s", "t">>,
     <<"c", "o", "n", "t", "e", "n", "t", "-", "l", "e", "n", "g", "t", "h">>,
     <<"t", "r", "a", "n", "s", "f", "e", "r", "-", "e", "n", "c", "o", "d", "i", "n", "g">>,
     <<"c", "o", "n", "n", "e", "c", "t", "i", "o", "n">>}

incoming_headers(hs) ==
    [k \in {n \in DOMAIN hs : lower(n) \notin HOP_HEADERS} |-> hs[k]]

\* the header dict handed to try_forward_to_upstream for key
forward_headers(incoming, key, ct) ==
    LET h1 == (H_Authorization :> Bearer(key)) @@ incoming
    IN IF \E k \in DOMAIN h1 : lower(k) = H_content_type THEN h1
       ELSE (H_Content_Type :> (IF ct # NoVal THEN ct ELSE JsonType)) @@ h1

\* incoming_headers and request.headers.get("content-type") of each request
Incoming ==
    [r \in DOMAIN Requests |->
        incoming_headers(request_headers(Requests[r].headers))]

ContentType ==
    [r \in DOMAIN Requests |->
        headers_get(request_headers(Requests[r].headers), H_Content_Type)]

\* body_to_send of each request
BodyToSend == [r \in DOMAIN Requests |-> rewrite_body(Requests[r].body)]

\* ---------------------------------------------------------- egress proxy
\* proxy_url of a dispatch with VPN_PROXY_URL set (its default) and
\* USE_FREE_PROXY False: stream_from_upstream takes no use_proxy
egress(is_stream, use_proxy) ==
    IF is_stream THEN "proxy"
    ELSE IF use_proxy THEN "proxy" ELSE "direct"

\* ------------------------------------------------------- status snapshot
\* s.key[:8] + "..." if len(s.key) > 8 else s.key
status_key_preview(key) ==
    IF Len(key) > 8 THEN prefix(key, 8) \o <<".", ".", ".">> ELSE key

\* KeyPool.status: the loop body reads s.day_start_time, an attribute that
\* KeyState.__init__ does not set
\* status_msg of KeyPool.status: the state the snapshot names for a key
status_msg(st, monotonic) ==
    IF st.banned_until > monotonic THEN "Backoff"
    ELSE IF st.usage_minute >= st.rpm_limit THEN "RPM Limit"
    ELSE IF st.usage_day >= st.rpd_limit THEN "Daily Limit"
    ELSE "Ready"

KeyPool_status(h, pool, monotonic) ==
    IF \E i \in 1..Len(pool.states) :
          "day_start_time" \notin DOMAIN h[pool.states[i]]
    THEN [raised |-> "AttributeError", out |-> <<>>]
    ELSE [raised |-> "none",
          out |-> [i \in 1..Len(pool.states) |->
                      LET st == h[pool.states[i]]
                      IN [key_preview |-> status_key_preview(st.key),
                          available_in |->
                              IF st.banned_until > monotonic
                              THEN st.banned_until - monotonic ELSE 0,
                          success |-> st.success,
                          fail |-> st.fail]]]

\* ---------------------------------------------------------------- reload
\* reload_keys that rebuilds the pool on the KeyState objects it already has
reload_keys_in_place(h, pool, keys, fallback, now_ts, today) ==
    LET k == load_keys(keys, fallback)
        old == Len(pool.states)
        fresh == [i \in 1..Len(k) |-> KeyState_init(k[i], now_ts, today)]
        ids == [i \in 1..Len(k) |->
                   IF i <= old THEN pool.states[i] ELSE Len(h) + i - old]
    IN IF k = <<>>
       THEN [heap |-> h, pool |-> pool, resp |-> Json(500, "No keys found")]
       ELSE [heap |-> [id \in 1..(Len(h) + (IF Len(k) > old THEN Len(k) - old ELSE 0)) |->
                          IF \E i \in 1..Len(k) : ids[i] = id
                          THEN fresh[CHOOSE i \in 1..Len(k) : ids[i] = id]
                          ELSE h[id]],
             pool |-> [states |-> ids, n |-> Len(k), idx |-> 0],
             resp |-> Json(200, "reloaded")]

\* reload_keys that installs the pool it loaded even when it loaded nothing
reload_keys_always(h, pool, keys, fallback, now_ts, today) ==
    LET k == load_keys(keys, fallback)
        kp == KeyPool_init(h, k, now_ts, today)
    IN [heap |-> kp.heap, pool |-> kp.pool,
        resp |-> IF k = <<>> THEN Json(500, "No keys found")
                 ELSE Json(200, "reloaded")]

\* reload_keys once load_keys_from_postgres has returned keys (nothing when
\* the datastore failed): [heap, pool, resp]
reload_keys(h, pool, keys, fallback, now_ts, today) ==
    LET k == load_keys(keys, fallback)
        kp == KeyPool_init(h, k, now_ts, today)
    IN IF k = <<>>
       THEN [heap |-> h, pool |-> pool, resp |-> Json(500, "No keys found")]
       ELSE [heap |-> kp.heap, pool |-> kp.pool, resp |-> Json(200, "reloaded")]

\* PUT /admin/keys/{api_key} with a status: UPDATE api_list SET status
update_key(rows, api_key, status) ==
    [i \in 1..Len(rows) |->
        IF rows[i].api = api_key THEN [rows[i] EXCEPT !.status = status]
        ELSE rows[i]]

\* ------------------------------------------------------ Retry controller
\* seen: the usage counts of the key when the task took it (observation only)
NoUsage == [minute |-> 0, day |-> 0]

IdleTask == [pc |-> "idle", i |-> 0, n |-> 0, key |-> NoKey, tried |-> <<>>,
             stream |-> FALSE, listing |-> FALSE, req |-> NoReq,
             sent |-> <<>>, out |-> <<>>, seen |-> NoUsage]

\* catch_all's for loop from the top of an iteration, tr.i iterations done:
\* up to the dispatch of the next key, or to the 429 after the loop
\* the retry loop going on for as long as next_available finds a key
catch_all_loop_unbounded(tr, h, pool, now_ts, today) ==
    LET r == next_available(h, pool, now_ts, today)
    IN IF r.st = NoKey
       THEN [heap |-> r.heap, pool |-> r.pool, acq |-> NoKey, slot |-> 0,
             tr |-> IdleTask,
             resp |-> [status |-> 429, ctype |-> "application/json",
                       body |-> "all keys unavailable"],
             tried |-> tr.tried]
       ELSE [heap |-> r.heap, pool |-> r.pool, acq |-> r.st, slot |-> r.slot,
             tr |-> [tr EXCEPT !.i = tr.i + 1,
                               !.key = r.st,
                               !.tried = Append(tr.tried, key_preview(r.heap[r.st].key)),
                               !.seen = [minute |-> r.heap[r.st].usage_minute,
                                         day |-> r.heap[r.st].usage_day],
                               !.pc = IF tr.stream THEN "stream_open" ELSE "await"],
             resp |-> IF tr.stream
                      THEN [status |-> 200, ctype |-> "text/event-stream",
                            body |-> "stream"]
                      ELSE NoResp,
             tried |-> Append(tr.tried, key_preview(r.heap[r.st].key))]

catch_all_loop(tr, h, pool, now_ts, today) ==
    LET r == IF tr.i < tr.n THEN next_available(h, pool, now_ts, today)
             ELSE [heap |-> h, pool |-> pool, st |-> NoKey, slot |-> 0]
    IN IF r.st = NoKey
       THEN [heap |-> r.heap, pool |-> r.pool, acq |-> NoKey, slot |-> 0,
             tr |-> IdleTask,
             resp |-> [status |-> 429, ctype |-> "application/json",
                       body |-> "all keys unavailable"],
             tried |-> tr.tried]
       ELSE [heap |-> r.heap, pool |-> r.pool, acq |-> r.st, slot |-> r.slot,
             tr |-> [tr EXCEPT !.i = tr.i + 1,
                               !.key = r.st,
                               !.tried = Append(tr.tried, key_preview(r.heap[r.st].key)),
                               !.seen = [minute |-> r.heap[r.st].usage_minute,
                                         day |-> r.heap[r.st].usage_day],
                               !.pc = IF tr.stream THEN "stream_open" ELSE "await"],
             resp |-> IF tr.stream
                      THEN [status |-> 200, ctype |-> "text/event-stream",
                            body |-> "stream"]
                      ELSE NoResp,
             tried |-> Append(tr.tried, key_preview(r.heap[r.st].key))]

NoEv == [op |-> "none", task |-> 0, stream |-> FALSE, mark |-> "none",
         mkey |-> NoKey, acq |-> NoKey, slot |-> 0, resp |-> NoResp, up |-> NoUp,
         tried |-> <<>>, req |-> NoReq, dkey |-> NoKey, fwd |-> NoHeaders,
         raised |-> "none", snapshot |-> <<>>, sent |-> NoVal, via |-> "none"]

\* bookkeeping of an acquisition (observation only); failed: a mark_failure
\* came in the same step, before it
NoteAcq(id, slot, ready, failed) ==
    IF id = NoKey
    THEN /\ UNCHANGED <<acqTimes, acqDay>>
         /\ acqLog' = IF failed THEN <<>> ELSE acqLog
         /\ acqReady' = IF failed THEN {} ELSE acqReady
    ELSE /\ acqTimes' = [acqTimes EXCEPT ![id] = Append(@, time_time)]
         /\ acqDay' = [acqDay EXCEPT ![id] = @ + 1]
         /\ LET run == IF failed \/ ready # acqReady THEN <<>> ELSE acqLog
                log == Append(run, slot)
            IN acqLog' = IF Len(log) > MaxLog THEN Tail(log) ELSE log
         /\ acqReady' = ready

\* bookkeeping of a step that marks a key: a failure ends the run of acqLog
NoteMark(mark) ==
    /\ acqLog' = IF mark = "failure" THEN <<>> ELSE acqLog
    /\ acqReady' = IF mark = "failure" THEN {} ELSE acqReady

\* the loop runs on heap h (h = heap, or heap after a mark)
RunLoop(t, tr, h, mark, mkey, up) ==
    LET c == catch_all_loop(tr, h, POOL, time_time, today_date)
    IN /\ heap' = c.heap
       /\ POOL' = c.pool
       /\ task' = [task EXCEPT ![t] = c.tr]
       /\ ev' = [NoEv EXCEPT !.op = IF mkey = NoKey THEN "request" ELSE "exception",
                             !.task = t, !.stream = tr.stream, !.mark = mark,
                             !.mkey = mkey, !.acq = c.acq, !.slot = c.slot,
                             !.resp = c.resp, !.up = up, !.tried = c.tried,
                             !.req = tr.req, !.dkey = c.acq,
                             !.fwd = IF c.acq = NoKey THEN NoHeaders
                                     ELSE forward_headers(Incoming[tr.req],
                                                          c.heap[c.acq].key,
                                                          ContentType[tr.req]),
                             !.sent = IF c.acq = NoKey THEN NoVal
                                      ELSE BodyToSend[tr.req],
                             !.via = IF c.acq = NoKey THEN "none"
                                     ELSE egress(tr.stream, TRUE)]
       /\ NoteAcq(c.acq, c.slot, ReadySlots(h, POOL, time_time, today_date),
                  mark = "failure")

\* the request is answered without a key: nothing but ev changes
Answer(t, req, resp) ==
    /\ ev' = [NoEv EXCEPT !.op = "request", !.task = t, !.req = req,
                          !.resp = resp]
    /\ UNCHANGED <<heap, POOL, task, acqTimes, acqDay, acqLog, acqReady>>

\* min(POOL.states, key=lambda s: s.banned_until): the first of the least
least_banned(h, states) ==
    states[CHOOSE i \in 1..Len(states) :
              /\ \A j \in 1..Len(states) :
                    h[states[i]].banned_until <= h[states[j]].banned_until
              /\ \A j \in 1..(i - 1) :
                    h[states[j]].banned_until > h[states[i]].banned_until]

\* catch_all, a models path with a method other than GET: one dispatch on a
\* randomly chosen available key, outside the retry loop
ModelsForward(t, req, is_stream) ==
    LET inpool == {POOL.states[i] : i \in 1..Len(POOL.states)}
        h1 == [id \in DOMAIN heap |->
                  IF id \in inpool
                  THEN is_available(heap[id], time_time, today_date).st
                  ELSE heap[id]]
        avail == {id \in inpool : is_available(heap[id], time_time, today_date).ok}
    IN IF inpool = {}
       THEN /\ ev' = [NoEv EXCEPT !.op = "request", !.task = t, !.req = req,
                                  !.raised = "ValueError"]
            /\ UNCHANGED <<heap, POOL, task, acqTimes, acqDay, acqLog, acqReady>>
       ELSE \E k \in (IF avail # {} THEN avail
                      ELSE {least_banned(h1, POOL.states)}) :
               /\ heap' = h1
               /\ task' = [task EXCEPT ![t] =
                              [IdleTask EXCEPT
                                  !.pc = IF is_stream THEN "stream_open" ELSE "await",
                                  !.key = k, !.stream = is_stream,
                                  !.seen = [minute |-> h1[k].usage_minute,
                                            day |-> h1[k].usage_day],
                                  !.listing = TRUE, !.req = req]]
               /\ ev' = [NoEv EXCEPT
                            !.op = "request", !.task = t, !.req = req,
                            !.stream = is_stream, !.dkey = k,
                            !.fwd = forward_headers(Incoming[req], h1[k].key,
                                                    ContentType[req]),
                            !.sent = Requests[req].body,
                            !.via = egress(is_stream, FALSE),
                            !.resp = IF is_stream
                                     THEN [status |-> 200,
                                           ctype |-> "text/event-stream",
                                           body |-> "stream"]
                                     ELSE NoResp]
               /\ UNCHANGED <<POOL, acqTimes, acqDay, acqLog, acqReady>>

\* catch_all enters its retry loop for request req
Execute(t, req, is_stream) ==
    RunLoop(t, [IdleTask EXCEPT !.n = Len(POOL.states), !.stream = is_stream,
                                !.req = req],
            heap, "none", NoKey, NoUp)

\* client request r reaches the server: the middleware, then catch_all
Request(t, r) ==
    /\ t <= scen.tasks
    /\ started < scen.limit
    /\ task[t].pc = "idle"
    /\ started' = started + 1
    /\ LET req == Requests[r]
           v == validate_api_key(req, heap, POOL)
           route == catch_all_route(req)
           is_stream == detect_stream_from_request(req.body_stream, req.qstream)
       IN IF v # NoResp THEN Answer(t, r, v)
          ELSE IF route = "execute" THEN Execute(t, r, is_stream)
          ELSE IF route = "models_forward" THEN ModelsForward(t, r, is_stream)
          ELSE Answer(t, r, local_response(route))
    /\ UNCHANGED <<mono, epoch, ticks, scen, admin, db, pending, baseline>>

\* GET /status: the middleware, then get_status
GetStatus(r) ==
    /\ started < scen.limit
    /\ started' = started + 1
    /\ LET req == Requests[r]
           v == validate_api_key(req, heap, POOL)
           snap == KeyPool_status(heap, POOL, mono)
       IN ev' = IF v # NoResp
                THEN [NoEv EXCEPT !.op = "status", !.req = r, !.resp = v]
                ELSE IF ~is_authenticated(req)
                THEN [NoEv EXCEPT !.op = "status", !.req = r,
                                  !.resp = Json(401, "Unauthorized")]
                ELSE IF snap.raised # "none"
                THEN [NoEv EXCEPT !.op = "status", !.req = r,
                                  !.raised = snap.raised]
                ELSE [NoEv EXCEPT !.op = "status", !.req = r,
                                  !.resp = Json(200, "snapshot"),
                                  !.snapshot = snap.out]
    /\ UNCHANGED <<mono, epoch, ticks, scen, admin, db, heap, POOL, task, pending,
                   baseline, acqTimes, acqDay, acqLog, acqReady>>

\* POST /reload-keys: the middleware, then reload_keys up to its await of
\* load_keys_from_postgres
ReloadKeys(r) ==
    /\ admin.pc = "idle"
    /\ admin.reloads < MaxReloads
    /\ LET req == Requests[r]
           v == validate_api_key(req, heap, POOL)
       IN IF v # NoResp
          THEN /\ ev' = [NoEv EXCEPT !.op = "reload", !.req = r, !.resp = v]
               /\ admin' = admin
          ELSE IF ~is_authenticated(req)
          THEN /\ ev' = [NoEv EXCEPT !.op = "reload", !.req = r,
                                     !.resp = Json(401, "Unauthorized")]
               /\ admin' = admin
          ELSE /\ ev' = [NoEv EXCEPT !.op = "reload", !.req = r]
               /\ admin' = [admin EXCEPT !.pc = "loading"]
    /\ UNCHANGED <<mono, epoch, ticks, scen, db, heap, POOL, task, pending,
                   started, baseline, acqTimes, acqDay, acqLog, acqReady>>

\* conn.fetch returns the active rows, or the datastore fails and
\* load_keys_from_postgres returns no keys
ReloadFetch(ok) ==
    /\ admin.pc = "loading"
    /\ admin' = [admin EXCEPT !.pc = "loaded", !.failed = ~ok,
                              !.keys = IF ok THEN load_keys_from_postgres(db)
                                       ELSE <<>>]
    /\ ev' = [NoEv EXCEPT !.op = "reload_fetch",
                          !.up = [NoUp EXCEPT !.kind = IF ok THEN "rows"
                                                       ELSE "DatastoreError"]]
    /\ UNCHANGED <<mono, epoch, ticks, scen, db, heap, POOL, task, pending,
                   started, baseline, acqTimes, acqDay, acqLog, acqReady>>

\* the rest of reload_keys: the fallback sources, then POOL = KeyPool(keys)
ReloadSwap ==
    /\ admin.pc = "loaded"
    /\ LET r == reload_keys(heap, POOL, admin.keys, scen.fallback, time_time,
                            today_date)
           new == (Len(heap) + 1)..Len(r.heap)
           ext(f, v) == [id \in DOMAIN r.heap |-> IF id \in DOMAIN f THEN f[id] ELSE v]
       IN /\ heap' = r.heap
          /\ POOL' = r.pool
          /\ pending' = ext(pending, <<>>)
          /\ acqTimes' = ext(acqTimes, <<>>)
          /\ acqDay' = ext(acqDay, 0)
          /\ baseline' = [id \in DOMAIN r.heap |->
                             IF id \in DOMAIN baseline THEN baseline[id]
                             ELSE r.heap[id].usage_day]
          /\ admin' = [admin EXCEPT
                          !.pc = "idle", !.keys = <<>>, !.failed = FALSE,
                          !.reloads = @ + 1,
                          !.gen = IF r.resp.status = 200 THEN @ + 1 ELSE @,
                          !.born = [id \in DOMAIN r.heap |->
                                       IF id \in new THEN admin.gen + 1
                                       ELSE admin.born[id]]]
          /\ ev' = [NoEv EXCEPT !.op = "reload_swap", !.resp = r.resp,
                                !.up = [NoUp EXCEPT !.kind =
                                           IF admin.failed THEN "DatastoreError"
                                           ELSE "rows"]]
    /\ acqLog' = <<>>
    /\ acqReady' = {}
    /\ UNCHANGED <<mono, epoch, ticks, scen, db, task, started>>

\* the admin sets the status of row i
UpdateKey(i, status) ==
    /\ admin.edits < MaxEdits
    /\ i \in 1..Len(db)
    /\ db[i].status # status
    /\ db' = update_key(db, db[i].api, status)
    /\ admin' = [admin EXCEPT !.edits = @ + 1]
    /\ ev' = [NoEv EXCEPT !.op = "update_key"]
    /\ UNCHANGED <<mono, epoch, ticks, scen, heap, POOL, task, pending, started,
                   baseline, acqTimes, acqDay, acqLog, acqReady>>

\* a POST /v1/chat/completions that presents the admin token enters
\* catch_all's retry loop
Begin(t, is_stream) ==
    /\ t <= scen.tasks
    /\ started < scen.limit
    /\ task[t].pc = "idle"
    /\ started' = started + 1
    /\ Execute(t, DefaultRequest(is_stream), is_stream)
    /\ UNCHANGED <<mono, epoch, ticks, scen, admin, db, pending, baseline>>

\* the awaited client.request returns an HTTP response
UpstreamResponse(t, status, ctype, body) ==
    /\ task[t].pc = "await"
    /\ LET k == task[t].key
           up == [kind |-> "response", status |-> status, ctype |-> ctype,
                  body |-> body]
           f == forward_response(heap[k], up, mono)
       IN /\ heap' = [heap EXCEPT ![k] = f.st]
          /\ pending' = IF f.mark = "success"
                        THEN [pending EXCEPT ![k] = Append(@, f.st.usage_day)]
                        ELSE pending
          /\ ev' = [NoEv EXCEPT !.op = "response", !.task = t, !.mark = f.mark,
                                !.mkey = k, !.resp = f.resp, !.up = up,
                                !.tried = task[t].tried, !.req = task[t].req]
          /\ NoteMark(f.mark)
    /\ task' = [task EXCEPT ![t] = IdleTask]
    /\ UNCHANGED <<mono, epoch, ticks, scen, admin, db, POOL, started, acqTimes, acqDay,
                   baseline>>

\* the awaited client.request raises httpx.RequestError
\* (connection error, transport error, timeout)
UpstreamRequestError(t) ==
    /\ task[t].pc = "await"
    /\ LET k == task[t].key
           f == forward_request_error(heap[k], mono)
       IN /\ heap' = [heap EXCEPT ![k] = f.st]
          /\ ev' = [NoEv EXCEPT !.op = "request_error", !.task = t,
                                !.mark = f.mark, !.mkey = k, !.resp = f.resp,
                                !.up = [NoUp EXCEPT !.kind = "RequestError"],
                                !.tried = task[t].tried, !.req = task[t].req]
    /\ NoteMark("failure")
    /\ task' = [task EXCEPT ![t] = IdleTask]
    /\ UNCHANGED <<mono, epoch, ticks, scen, admin, db, POOL, pending, started, acqTimes,
                   acqDay, baseline>>

\* try_forward_to_upstream raises an exception that is no httpx.RequestError:
\* catch_all marks the key failed and continues its loop
UpstreamException(t) ==
    /\ task[t].pc = "await"
    /\ LET k == task[t].key
           h == [heap EXCEPT ![k] = mark_failure(heap[k], mono)]
       IN IF task[t].listing
          \* the models dispatch is outside the loop: the exception leaves
          \* catch_all
          THEN /\ ev' = [NoEv EXCEPT !.op = "exception", !.task = t,
                                     !.up = [NoUp EXCEPT !.kind = "Exception"],
                                     !.req = task[t].req, !.raised = "Exception"]
               /\ task' = [task EXCEPT ![t] = IdleTask]
               /\ UNCHANGED <<heap, POOL, acqTimes, acqDay, acqLog, acqReady>>
          ELSE RunLoop(t, task[t], h, "failure", k,
                       [NoUp EXCEPT !.kind = "Exception"])
    /\ UNCHANGED <<mono, epoch, ticks, scen, admin, db, pending, started, baseline>>

\* ------------------------------------------------------------- Streaming
\* stream_from_upstream at the status line, with FAILURE_CODES as the test
stream_status_failure_codes(st, status, body, monotonic) ==
    IF status \in FAILURE_CODES
    THEN [st |-> mark_failure(st, monotonic), mark |-> "failure", out |-> body,
          done |-> TRUE]
    ELSE [st |-> mark_success(st), mark |-> "success", out |-> "",
          done |-> FALSE]

\* stream_from_upstream at the status line: [st, mark, out, done]; out is
\* what the generator yields at once, done whether it returns
stream_status(st, status, body, monotonic) ==
    IF status >= 400
    THEN [st |-> mark_failure(st, monotonic), mark |-> "failure", out |-> body,
          done |-> TRUE]
    ELSE [st |-> mark_success(st), mark |-> "success", out |-> "",
          done |-> FALSE]

\* async for chunk in upstream.aiter_bytes(): if chunk: yield chunk
pipe_chunk(out, chunk) ==
    IF chunk # <<>> THEN Append(out, chunk) ELSE out

\* stream_from_upstream: the status line of the streamed upstream response
StreamStatus(t, status, body) ==
    /\ task[t].pc = "stream_open"
    /\ LET k == task[t].key
           f == stream_status(heap[k], status, body, mono)
       IN /\ heap' = [heap EXCEPT ![k] = f.st]
          /\ pending' = IF f.mark = "success"
                        THEN [pending EXCEPT ![k] = Append(@, f.st.usage_day)]
                        ELSE pending
          /\ task' = [task EXCEPT ![t] = IF f.done THEN IdleTask
                                         ELSE [@ EXCEPT !.pc = "streaming"]]
          /\ ev' = [NoEv EXCEPT
                       !.op = "stream_status", !.task = t, !.stream = TRUE,
                       !.mark = f.mark, !.mkey = k,
                       !.resp = [NoResp EXCEPT !.body = f.out],
                       !.up = [kind |-> "response", status |-> status,
                               ctype |-> NoCT, body |-> body],
                       !.tried = task[t].tried, !.req = task[t].req]
          /\ NoteMark(f.mark)
    /\ UNCHANGED <<mono, epoch, ticks, scen, admin, db, POOL, started, acqTimes, acqDay,
                   baseline>>

\* upstream sends one more chunk and the generator pipes it
StreamChunk(t, chunk) ==
    /\ task[t].pc = "streaming"
    /\ Len(task[t].sent) < MaxChunks
    /\ task' = [task EXCEPT ![t] = [@ EXCEPT !.sent = Append(@, chunk),
                                             !.out = pipe_chunk(@, chunk)]]
    /\ ev' = [NoEv EXCEPT !.op = "stream_chunk", !.task = t, !.stream = TRUE,
                          !.tried = task[t].tried, !.req = task[t].req]
    /\ UNCHANGED <<mono, epoch, ticks, scen, admin, db, heap, POOL, pending, started,
                   acqTimes, acqDay, baseline, acqLog, acqReady>>

\* the upstream stream ends after its last chunk was piped
StreamEnd(t) ==
    /\ task[t].pc = "streaming"
    /\ task' = [task EXCEPT ![t] = IdleTask]
    /\ ev' = [NoEv EXCEPT !.op = "stream_end", !.task = t, !.stream = TRUE,
                          !.tried = task[t].tried, !.req = task[t].req]
    /\ UNCHANGED <<mono, epoch, ticks, scen, admin, db, heap, POOL, pending, started,
                   acqTimes, acqDay, baseline, acqLog, acqReady>>

\* httpx.RequestError while opening the stream or while piping its chunks
StreamRequestError(t) ==
    /\ task[t].pc \in {"stream_open", "streaming"}
    /\ LET k == task[t].key
       IN /\ heap' = [heap EXCEPT ![k] = mark_failure(heap[k], mono)]
          /\ ev' = [NoEv EXCEPT !.op = "stream_error", !.task = t,
                                !.stream = TRUE, !.mark = "failure", !.mkey = k,
                                !.up = [NoUp EXCEPT !.kind = "RequestError"],
                                !.tried = task[t].tried, !.req = task[t].req,
                                !.raised = "RequestError"]
    /\ NoteMark("failure")
    /\ task' = [task EXCEPT ![t] = IdleTask]
    /\ UNCHANGED <<mono, epoch, ticks, scen, admin, db, POOL, pending, started, acqTimes,
                   acqDay, baseline>>

\* the generator is closed or cancelled (client disconnect), or raises an
\* exception that is no httpx.RequestError: nothing is marked
StreamException(t) ==
    /\ task[t].pc \in {"stream_open", "streaming"}
    /\ task' = [task EXCEPT ![t] = IdleTask]
    /\ ev' = [NoEv EXCEPT !.op = "stream_closed", !.task = t, !.stream = TRUE,
                          !.up = [NoUp EXCEPT !.kind = "Exception"],
                          !.tried = task[t].tried, !.req = task[t].req]
    /\ UNCHANGED <<mono, epoch, ticks, scen, admin, db, heap, POOL, pending, started,
                   acqTimes, acqDay, baseline, acqLog, acqReady>>

\* ------------------------------------------------------------ Usage sync
\* one detached update_usage_in_db task of KeyState id runs: it writes the
\* usage_day it reads when it runs, or fails and is dropped; the KeyState is
\* read only
update_usage_in_db_counts_failure(rows, st, today, ok) ==
    IF ok
    THEN [rows |-> [i \in 1..Len(rows) |->
                      IF rows[i].api = st.key
                      THEN [rows[i] EXCEPT !.usage_today = st.usage_day,
                                           !.last_used_at = today]
                      ELSE rows[i]],
          st |-> st]
    ELSE [rows |-> rows, st |-> [st EXCEPT !.fail = @ + 1]]

\* update_usage_in_db that writes the successes of this process only
update_usage_in_db_success_only(rows, st, today, ok) ==
    IF ok
    THEN [rows |-> [i \in 1..Len(rows) |->
                      IF rows[i].api = st.key
                      THEN [rows[i] EXCEPT !.usage_today = st.success,
                                           !.last_used_at = today]
                      ELSE rows[i]],
          st |-> st]
    ELSE [rows |-> rows, st |-> st]

update_usage_in_db(rows, st, today, ok) ==
    IF ok
    THEN [rows |-> [i \in 1..Len(rows) |->
                      IF rows[i].api = st.key
                      THEN [rows[i] EXCEPT !.usage_today = st.usage_day,
                                           !.last_used_at = today]
                      ELSE rows[i]],
          st |-> st]
    ELSE [rows |-> rows, st |-> st]

UsageSync(id, j, ok) ==
    /\ j \in 1..Len(pending[id])
    /\ pending' = [pending EXCEPT ![id] = SubSeq(@, 1, j - 1) \o
                                         SubSeq(@, j + 1, Len(@))]
    /\ LET u == update_usage_in_db(db, heap[id], today_date, ok)
       IN /\ db' = u.rows
          /\ heap' = [heap EXCEPT ![id] = u.st]
    /\ ev' = NoEv
    /\ UNCHANGED <<mono, epoch, ticks, scen, admin, POOL, task, started, acqTimes,
                   acqDay, baseline, acqLog, acqReady>>

\* ----------------------------------------------------------------- Clock
Clock(d, limit) ==
    /\ ticks < limit
    /\ ticks' = ticks + 1
    /\ mono' = mono + d
    /\ ev' = NoEv
    /\ acqTimes' = [id \in DOMAIN acqTimes |->
                       SelectSeq(acqTimes[id],
                                 LAMBDA x : x > time_time + d - MinuteSeconds)]
    /\ IF utc_date(time_time + d) > today_date
       THEN /\ acqDay' = [id \in DOMAIN acqDay |-> 0]
            /\ baseline' = [id \in DOMAIN baseline |-> 0]
       ELSE UNCHANGED <<acqDay, baseline>>
    /\ UNCHANGED <<epoch, scen, admin, db, heap, POOL, task, pending, started, acqLog,
                   acqReady>>

Tick(d) == Clock(d, MaxTicks)

\* half a minute passes
Elapse == Clock(MinuteSeconds \div 2, MaxExpiryTicks)

\* ------------------------------------------------------------------ Init
Yesterday(d) == d - 1

\* what a row of api_list may hold at startup
ActiveKinds(today) ==
    { [status |-> "active", usage_today |-> 0, last_used_at |-> NoDate],
      [status |-> "active", usage_today |-> DEFAULT_RPD - 1, last_used_at |-> today] }

RowKinds(today) ==
    ActiveKinds(today) \cup
    { [status |-> "active", usage_today |-> DEFAULT_RPD - 1,
       last_used_at |-> Yesterday(today)],
      [status |-> "inactive", usage_today |-> 0, last_used_at |-> NoDate] }

\* what the fallback sources (the Supabase table, else api_keys.txt) may hold
NoFallback == {<<>>}
Fallbacks == {<<>>, <<[key |-> KeyText[3], usage_day |-> 0, last_used |-> NoDate]>>}

\* pc, keys, failed: reload_keys; reloads, edits: admin operations so far;
\* gen: pools installed since startup; born: per KeyState, the value of gen
\* when it was constructed (observation only)
NoAdmin == [pc |-> "idle", keys |-> <<>>, failed |-> FALSE, reloads |-> 0,
            edits |-> 0, gen |-> 0, born |-> <<>>]

InitEnv(nrows, allkinds, ntasks, limit, fallbacks) ==
    /\ mono = StartMono
    /\ epoch \in ClockOffsets
    /\ ticks = 0
    /\ \E fb \in fallbacks :
          scen = [tasks |-> ntasks, limit |-> limit, fallback |-> fb]
    /\ \E kinds \in [1..nrows -> IF allkinds THEN RowKinds(utc_date(mono + epoch))
                                  ELSE ActiveKinds(utc_date(mono + epoch))] :
          db = [i \in 1..nrows |->
                   [api |-> KeyText[i], status |-> kinds[i].status,
                    usage_today |-> kinds[i].usage_today,
                    last_used_at |-> kinds[i].last_used_at]]
    \* startup_event: POOL = KeyPool(keys)
    /\ LET kp == KeyPool_init(<<>>, load_keys(load_keys_from_postgres(db),
                                              scen.fallback),
                              mono + epoch, utc_date(mono + epoch))
       IN /\ heap = kp.heap
          /\ admin = [NoAdmin EXCEPT !.born = [id \in 1..Len(kp.heap) |-> 0]]
          /\ POOL = kp.pool
          /\ pending = [id \in 1..Len(kp.heap) |-> <<>>]
          /\ acqTimes = [id \in 1..Len(kp.heap) |-> <<>>]
          /\ acqDay = [id \in 1..Len(kp.heap) |-> 0]
          /\ baseline = [id \in 1..Len(kp.heap) |-> kp.heap[id].usage_day]
    /\ task = [t \in Tasks |-> IdleTask]
    /\ started = 0
    /\ ev = NoEv
    /\ acqLog = <<>>
    /\ acqReady = {}

InitWith(nrows, allkinds, ntasks, limit) ==
    InitEnv(nrows, allkinds, ntasks, limit, NoFallback)

Init == InitWith(MaxKeys, TRUE, MaxTasks, MaxRequests)

InitSeq == InitWith(MaxSeqKeys, FALSE, 1, MaxSeqRequests)

InitOne == InitWith(1, TRUE, 1, MaxOneRequests)

InitFront == InitWith(MaxFrontKeys, TRUE, MaxFrontTasks, MaxFrontRequests)

InitStream == InitWith(MaxStreamKeys, TRUE, MaxStreamTasks, MaxStreamRequests)

InitRewrite == InitWith(MaxRewriteKeys, TRUE, 1, MaxRewriteRequests)

InitExpiry == InitWith(1, FALSE, 1, MaxExpiryRequests)

InitTerm == InitWith(MaxTermKeys, TRUE, 1, MaxTermRequests)

InitDurable == InitEnv(MaxDurableKeys, FALSE, 1, MaxDurableRequests, NoFallback)

InitFresh == InitEnv(MaxDurableKeys, TRUE, 1, MaxDurableRequests, Fallbacks)

InitReload ==
    InitEnv(MaxReloadKeys, FALSE, MaxReloadTasks, MaxReloadRequests, Fallbacks)

\* the steps of the request handlers
RequestStep ==
    \/ \E t \in Tasks, s \in BOOLEAN : Begin(t, s)
    \/ \E t \in Tasks, st \in Statuses, ct \in ContentTypes, b \in Bodies :
          UpstreamResponse(t, st, ct, b)
    \/ \E t \in Tasks : UpstreamRequestError(t)
    \/ \E t \in Tasks : UpstreamException(t)
    \/ \E t \in Tasks, st \in Statuses, b \in Bodies : StreamStatus(t, st, b)
    \/ \E t \in Tasks : StreamEnd(t)
    \/ \E t \in Tasks : StreamRequestError(t)
    \/ \E t \in Tasks : StreamException(t)

\* the same steps when clients send any of Requests
FrontStep ==
    \/ \E t \in Tasks, r \in ProxyRequests : Request(t, r)
    \/ \E r \in StatusRequests : GetStatus(r)
    \/ \E t \in Tasks, st \in Statuses, ct \in ContentTypes, b \in Bodies :
          UpstreamResponse(t, st, ct, b)
    \/ \E t \in Tasks : UpstreamRequestError(t)
    \/ \E t \in Tasks : UpstreamException(t)
    \/ \E t \in Tasks, st \in Statuses, b \in Bodies : StreamStatus(t, st, b)
    \/ \E t \in Tasks : StreamEnd(t)
    \/ \E t \in Tasks : StreamRequestError(t)
    \/ \E t \in Tasks : StreamException(t)

\* the steps of the request handlers when upstream answers with any of
\* WideStatuses and streams chunks
StreamStep ==
    \/ \E t \in Tasks, s \in BOOLEAN : Begin(t, s)
    \/ \E t \in Tasks, st \in WideStatuses, ct \in ContentTypes :
          UpstreamResponse(t, st, ct, "b1")
    \/ \E t \in Tasks : UpstreamRequestError(t)
    \/ \E t \in Tasks : UpstreamException(t)
    \/ \E t \in Tasks, st \in WideStatuses, b \in StreamBodies :
          StreamStatus(t, st, b)
    \/ \E t \in Tasks, c \in Chunks : StreamChunk(t, c)
    \/ \E t \in Tasks : StreamEnd(t)
    \/ \E t \in Tasks : StreamRequestError(t)
    \/ \E t \in Tasks : StreamException(t)

\* the steps of the request handlers when clients send content
RewriteStep ==
    \/ \E t \in Tasks, r \in RewriteRequests : Request(t, r)
    \/ \E t \in Tasks, st \in Statuses : UpstreamResponse(t, st, NoCT, "b1")
    \/ \E t \in Tasks : UpstreamRequestError(t)
    \/ \E t \in Tasks : UpstreamException(t)
    \/ \E t \in Tasks, st \in Statuses : StreamStatus(t, st, "b1")
    \/ \E t \in Tasks : StreamEnd(t)
    \/ \E t \in Tasks : StreamRequestError(t)
    \/ \E t \in Tasks : StreamException(t)

\* the steps of the request handlers while the admin edits rows and reloads
\* the pool
ReloadStep ==
    \/ \E t \in Tasks : Begin(t, FALSE)
    \/ \E t \in Tasks, st \in Statuses : UpstreamResponse(t, st, NoCT, "b1")
    \/ \E t \in Tasks : UpstreamRequestError(t)
    \/ \E t \in Tasks : UpstreamException(t)
    \/ \E r \in ReloadRequests : ReloadKeys(r)
    \/ \E ok \in BOOLEAN : ReloadFetch(ok)
    \/ ReloadSwap
    \/ \E i \in 1..MaxReloadKeys, status \in {"active", "inactive"} :
          UpdateKey(i, status)

\* admin sessions that ask for new limits and reload the pool while a
\* client sends requests
ConfigStep ==
    \/ \E t \in Tasks, r \in ConfigRequests \cup {DefaultRequest(FALSE)} :
          Request(t, r)
    \/ \E t \in Tasks, st \in Statuses : UpstreamResponse(t, st, NoCT, "b1")
    \/ \E r \in ReloadRequests : ReloadKeys(r)
    \/ \E ok \in BOOLEAN : ReloadFetch(ok)
    \/ ReloadSwap

Next ==
    \/ RequestStep
    \/ \E id \in DOMAIN pending, j \in 1..scen.limit, ok \in BOOLEAN :
          UsageSync(id, j, ok)
    \/ \E d \in TickSteps : Tick(d)

\* concurrent clients
Spec == Init /\ [][Next]_vars

\* admin requests for new limits, reloads and client requests
SpecConfig == InitReload /\ [][ConfigStep]_vars

\* one sequential client and MaxSeqKeys active rows; its requests all fall in
\* the same second, before any usage-sync task runs
SpecSeq == InitSeq /\ [][RequestStep]_vars

\* the same with one row
SpecOne == InitOne /\ [][RequestStep]_vars

\* one sequential client, one key, and a clock that runs for MaxExpiryTicks
\* half minutes
ExpiryStep ==
    \/ \E t \in Tasks : Begin(t, FALSE)
    \/ \E t \in Tasks, st \in Statuses : UpstreamResponse(t, st, NoCT, "b1")
    \/ \E t \in Tasks : UpstreamRequestError(t)
    \/ Elapse

\* concurrent clients that do not stream, at one moment of the clock
MarkStep ==
    \/ \E t \in Tasks : Begin(t, FALSE)
    \/ \E t \in Tasks, st \in Statuses, ct \in ContentTypes, b \in Bodies :
          UpstreamResponse(t, st, ct, b)
    \/ \E t \in Tasks : UpstreamRequestError(t)
    \/ \E t \in Tasks : UpstreamException(t)

SpecMark == Init /\ [][MarkStep]_vars

\* every usage-sync task reaches the datastore and succeeds
SyncStep ==
    \E id \in DOMAIN pending, j \in 1..scen.limit : UsageSync(id, j, TRUE)

\* one client, an admin who reloads the pool, and usage-sync tasks that
\* all complete without a datastore error, in any order
DurableStep ==
    \/ \E t \in Tasks : Begin(t, FALSE)
    \/ \E t \in Tasks, st \in Statuses : UpstreamResponse(t, st, NoCT, "b1")
    \/ \E r \in ReloadRequests : ReloadKeys(r)
    \/ \E ok \in BOOLEAN : ReloadFetch(ok)
    \/ ReloadSwap
    \/ SyncStep

SpecDurable == InitDurable /\ [][DurableStep]_vars /\ WF_vars(SyncStep)

\* the same over rows of every kind and with fallback sources
SpecFresh == InitFresh /\ [][DurableStep]_vars

\* an awaited upstream call of some request task ends
UpstreamStep ==
    \/ \E t \in Tasks, st \in Statuses, ct \in ContentTypes, b \in Bodies :
          UpstreamResponse(t, st, ct, b)
    \/ \E t \in Tasks : UpstreamRequestError(t)
    \/ \E t \in Tasks : UpstreamException(t)
    \/ \E t \in Tasks, st \in Statuses, b \in Bodies : StreamStatus(t, st, b)
    \/ \E t \in Tasks : StreamEnd(t)
    \/ \E t \in Tasks : StreamRequestError(t)
    \/ \E t \in Tasks : StreamException(t)

\* one sequential client whose upstream calls all end (httpx gives up on a
\* call that gets no answer)
SpecTerm == InitTerm /\ [][RequestStep]_vars /\ WF_vars(UpstreamStep)

\* time passes whatever the gateway does
SpecExpiry == InitExpiry /\ [][ExpiryStep]_vars /\ WF_vars(Elapse)

\* concurrent clients, upstream answers with any of WideStatuses and streams
\* chunks, all in the same second
SpecStream == InitStream /\ [][StreamStep]_vars

\* clients that send any of Requests, in the same second
SpecFront == InitFront /\ [][FrontStep]_vars

\* one sequential client that sends any of RewriteRequests
SpecRewrite == InitRewrite /\ [][RewriteStep]_vars

\* concurrent clients while the admin edits rows and reloads the pool
SpecReload == InitReload /\ [][ReloadStep]_vars

\* =====================================================================
\* Properties
\* =====================================================================
KeyIds == DOMAIN heap
AllSlots == 0..(POOL.n - 1)
ReadyNow == ReadySlots(heap, POOL, time_time, today_date)
\* tasks that hold an acquired key on which nothing has been marked yet
InFlight == {t \in Tasks : task[t].pc \in {"await", "stream_open"}}

\* C1: per-minute rate-limit safety: for every key, at every instant, the
\* number of times next_available returned it within the trailing 60 seconds
\* is at most its per-minute limit.
C1_RateLimitMinute ==
    \A id \in KeyIds : Len(acqTimes[id]) <= heap[id].rpm_limit

\* C2: daily limit with baseline: for every key, the acquisitions since the
\* last UTC date rollover plus the usage baseline loaded from the datastore
\* never exceed rpd.
C2_DailyLimit ==
    \A id \in KeyIds : acqDay[id] + baseline[id] <= heap[id].rpd_limit

\* C3: two requests in flight at the same time (each holds an acquired key on
\* which neither mark_success nor mark_failure has been called) hold
\* different keys.
C3_DistinctKeysInFlight ==
    \A t1, t2 \in InFlight : t1 # t2 => task[t1].key # task[t2].key

\* C4: a key whose backoff ban has not expired (now < banned_until as set by
\* mark_failure from the monotonic clock) is never returned by
\* next_available.
C4_BannedNeverAcquired ==
    ev.acq # NoKey => ~(mono < heap[ev.acq].banned_until)

\* the backoff after f consecutive failures
BackoffAfter(f) ==
    IF f = 0 THEN 0
    ELSE IF f >= 8 THEN 600
    ELSE <<5, 10, 20, 40, 80, 160, 320>>[f]

\* C5: mark_failure sets backoff to 5 when it was 0 and otherwise to
\* min(600, 2*backoff), sets banned_until to now + backoff and adds exactly 1
\* to the failure count; failures with no success in between yield 5, 10, 20,
\* 40, 80, 160, 320, 600, 600, ...; backoff is always 0 or within [5, 600].
C5_BackoffStep ==
    \A id \in KeyIds :
        ev'.mark = "failure" /\ ev'.mkey = id =>
            /\ heap'[id].backoff = IF heap[id].backoff = 0 THEN 5
                                   ELSE Min(600, 2 * heap[id].backoff)
            /\ heap'[id].banned_until = mono' + heap'[id].backoff
            /\ heap'[id].fail = heap[id].fail + 1

C5_BackoffRange ==
    \A id \in KeyIds :
        /\ heap[id].backoff = 0 \/ (5 <= heap[id].backoff /\ heap[id].backoff <= 600)
        /\ heap[id].success = 0 => heap[id].backoff = BackoffAfter(heap[id].fail)

C5_Backoff == []C5_BackoffRange /\ [][C5_BackoffStep]_vars

\* nine failures in a row: the cap was reached and held
C5_Witness ==
    \E id \in KeyIds :
        heap[id].fail = 9 /\ heap[id].success = 0 /\ heap[id].backoff = 600

\* C6: immediately after any mark_success on a key, its backoff is 0, its
\* banned_until is not after now (on either clock), and its success count is
\* exactly one higher than before.
C6_SuccessStep ==
    \A id \in KeyIds :
        ev'.mark = "success" /\ ev'.mkey = id =>
            /\ heap'[id].backoff = 0
            /\ heap'[id].banned_until <= mono'
            /\ heap'[id].banned_until <= mono' + epoch'
            /\ heap'[id].success = heap[id].success + 1

C6_SuccessResetsBackoff == [][C6_SuccessStep]_vars

\* a success on a key that had failed before
C6_Witness ==
    /\ ev.mark = "success"
    /\ heap[ev.mkey].fail > 0
    /\ heap[ev.mkey].backoff = 0

\* C7: when every key is Ready and no failure occurs, next_available returns
\* the slot at the cursor and leaves the cursor one past it modulo N, so
\* successive calls return the keys in cyclic index order.
C7_Step ==
    (ev'.acq # NoKey /\ ev'.mark = "none" /\ ReadyNow = AllSlots) =>
        /\ ev'.slot = POOL.idx
        /\ POOL'.idx = (ev'.slot + 1) % POOL.n
        /\ ev'.acq = POOL.states[ev'.slot + 1]

C7_Cyclic ==
    acqReady = AllSlots =>
        /\ \A i \in 1..(Len(acqLog) - 1) : acqLog[i + 1] = (acqLog[i] + 1) % POOL.n
        /\ acqLog # <<>> => POOL.idx = (acqLog[Len(acqLog)] + 1) % POOL.n

C7_RoundRobin == []C7_Cyclic /\ [][C7_Step]_vars

\* three keys, four requests: K0, K1, K2, K0
C7_Witness ==
    /\ POOL.n = 3
    /\ acqReady = {0, 1, 2}
    /\ acqLog = <<0, 1, 2, 0>>

\* how often slot r occurs among the last n entries of log
CountLast(log, n, r) ==
    Cardinality({i \in (Len(log) - n + 1)..Len(log) : log[i] = r})

\* C8: in a pool of N keys of which K (1 <= K <= N) are Ready throughout and
\* with no failures, any N consecutive acquisitions return each of the K
\* Ready keys at least floor(N/K) times.
C8_Fairness ==
    (POOL.n > 0 /\ Len(acqLog) >= POOL.n /\ acqReady # {}) =>
        \A r \in acqReady :
            CountLast(acqLog, POOL.n, r) >= POOL.n \div Cardinality(acqReady)

\* three keys of which two are Ready, three acquisitions in a row
C8_Witness ==
    /\ POOL.n = 3
    /\ Cardinality(acqReady) = 2
    /\ Len(acqLog) >= 3

\* C9: when a non-streaming dispatch ends in a connection error, transport
\* error or timeout, mark_failure is invoked on the key and the client sees an
\* error only when no further key is available to this request.
C9_RetryOnTransient ==
    (ev.up.kind = "RequestError" /\ ~ev.stream) =>
        /\ ev.mark = "failure"
        /\ ev.resp.status # 0 => (ReadyNow = {} \/ Len(ev.tried) >= POOL.n)

\* C10 as stated: an upstream HTTP response to a non-streaming dispatch
\* reaches the client with exactly its status, body and content-type, and the
\* request acquires and dispatches nothing further.
C10_Verbatim ==
    (ev.up.kind = "response" /\ ~ev.stream) =>
        /\ ev.resp = [status |-> ev.up.status, ctype |-> ev.up.ctype,
                      body |-> ev.up.body]
        /\ ev.acq = NoKey
        /\ task[ev.task].pc = "idle"

\* C10: an upstream HTTP response (any status) to a non-streaming dispatch
\* reaches the client with exactly its status and body, and with its
\* content-type as media type, application/json when upstream sent none; the
\* request makes no further next_available call and no further dispatch.
C10_Step ==
    (ev'.up.kind = "response" /\ ~ev'.stream) =>
        /\ ev'.resp.status = ev'.up.status
        /\ ev'.resp.body = ev'.up.body
        /\ ev'.resp.ctype = IF ev'.up.ctype = NoCT THEN "application/json"
                            ELSE ev'.up.ctype
        /\ ev'.acq = NoKey
        /\ POOL' = POOL
        /\ acqDay' = acqDay
        /\ task'[ev'.task].pc = "idle"
        /\ \A id \in KeyIds : id # ev'.mkey => heap'[id] = heap[id]

C10_NoRetryOnResponse == [][C10_Step]_vars

\* a 503 without content-type handed to the client although another key was
\* Ready and the request had iterations left
C10_Witness ==
    /\ ev.up.kind = "response" /\ ~ev.stream
    /\ ev.up.status = 503
    /\ ev.up.ctype = NoCT
    /\ ev.resp.ctype = "application/json"
    /\ ReadyNow # {}
    /\ Len(ev.tried) < POOL.n

\* the answer of catch_all after its retry loop
Unavailable(r) == r.status = 429 /\ r.body = "all keys unavailable"

\* steps of catch_all's retry loop: the entry of a request, or the return to
\* the loop after a dispatch raised
LoopSteps == {"request", "exception"}

\* C11: a model-execution request is answered 429 "all keys unavailable"
\* exactly when its retry loop ends without a Forwarder response
\* (next_available returned none, or every acquired key's dispatch raised);
\* the tried list holds the previews (first 8 characters and "...") of exactly
\* the keys this request acquired, in acquisition order, and is empty when no
\* key was acquired.
C11_Step ==
    LET t == ev'.task
        before == IF ev'.op = "request" THEN <<>> ELSE task[t].tried
        looped == ev'.op \in LoopSteps
    IN /\ Unavailable(ev'.resp) <=> (looped /\ ev'.acq = NoKey)
       /\ (looped /\ ev'.acq = NoKey) =>
             \/ ReadyNow' = {}
             \/ ev'.op = "exception" /\ Len(ev'.tried) = POOL.n
       /\ (looped /\ ReadyNow' # {} /\ Len(before) < POOL.n) => ev'.acq # NoKey
       /\ looped =>
             ev'.tried =
                 IF ev'.acq = NoKey THEN before
                 ELSE Append(before,
                             SubSeq(heap'[ev'.acq].key, 1,
                                    Min(8, Len(heap'[ev'.acq].key)))
                             \o <<".", ".", ".">>)

C11_AllKeysUnavailable == [][C11_Step]_vars

\* both keys were acquired and both dispatches raised
C11_Witness ==
    /\ Unavailable(ev.resp)
    /\ Len(ev.tried) = 2
    /\ ev.tried[1] # ev.tried[2]

\* the marks a step made on key id: mark_failure adds one to fail,
\* mark_success one to success
FailuresAdded(id) == heap'[id].fail - heap[id].fail
SuccessesAdded(id) == heap'[id].success - heap[id].success

\* C12: for a non-streaming dispatch that receives an HTTP response,
\* mark_failure is invoked on the acquired key if and only if the status is in
\* {429, 403, 500, 502, 503}; for every other status mark_success is invoked;
\* exactly one of the two is invoked, exactly once.
C12_Step ==
    ev'.op = "response" =>
        LET k == task[ev'.task].key
            failure == ev'.up.status \in {429, 403, 500, 502, 503}
        IN /\ ev'.mkey = k
           /\ ev'.mark = IF failure THEN "failure" ELSE "success"
           /\ FailuresAdded(k) = IF failure THEN 1 ELSE 0
           /\ SuccessesAdded(k) = IF failure THEN 0 ELSE 1
           /\ heap'[k].backoff = IF failure
                                 THEN (IF heap[k].backoff = 0 THEN 5
                                       ELSE Min(600, 2 * heap[k].backoff))
                                 ELSE 0
           /\ \A id \in KeyIds : id # k => heap'[id] = heap[id]

C12_NonStreamingClassification == [][C12_Step]_vars

\* a 404 marked as a success on a key that an earlier dispatch marked failed
C12_Witness ==
    /\ ev.op = "response"
    /\ ev.up.status = 404
    /\ ev.mark = "success"
    /\ heap[ev.mkey].fail = 1
    /\ heap[ev.mkey].success = 1

\* C13 as stated: every upstream HTTP response with a 4xx or 5xx status
\* marks the acquired key failed, in the non-streaming and in the streaming
\* path, and the response is returned to the client as it is.
C13_EveryErrorMarksFailure ==
    (ev.up.kind = "response" /\ ev.up.status >= 400) =>
        /\ ev.mark = "failure"
        /\ ev.resp.body = ev.up.body

\* C13: an upstream HTTP response with a 4xx or 5xx status marks the acquired
\* key failed (mark_failure, backoff applied) for every status >= 400 in the
\* streaming path, but in the non-streaming path only for 429, 403, 500, 502
\* and 503: any other 4xx or 5xx status there invokes mark_success.  In both
\* paths the upstream body reaches the client unchanged and nothing is
\* retried; the non-streaming path also passes the upstream status on.
C13_Step ==
    (ev'.up.kind = "response" /\ ev'.up.status >= 400) =>
        LET k == task[ev'.task].key
            failure == ev'.stream \/ ev'.up.status \in {429, 403, 500, 502, 503}
        IN /\ ev'.mkey = k
           /\ ev'.mark = IF failure THEN "failure" ELSE "success"
           /\ FailuresAdded(k) = IF failure THEN 1 ELSE 0
           /\ SuccessesAdded(k) = IF failure THEN 0 ELSE 1
           /\ failure => /\ heap'[k].backoff >= 5
                         /\ heap'[k].banned_until = mono' + heap'[k].backoff
           /\ ~failure => heap'[k].backoff = 0 /\ heap'[k].banned_until = 0
           /\ ev'.resp.body = ev'.up.body
           /\ ~ev'.stream => ev'.resp.status = ev'.up.status
           /\ ev'.acq = NoKey
           /\ task'[ev'.task].pc = "idle"

C13_ErrorStatusMarks == [][C13_Step]_vars

\* a streamed 404 that marked a failure on a key with an earlier success
C13_Witness ==
    /\ ev.up.kind = "response"
    /\ ev.up.status = 404
    /\ ev.stream
    /\ ev.mark = "failure"
    /\ heap[ev.mkey].success = 1

\* C14: for a streaming dispatch, if the initial upstream status is >= 400
\* then mark_failure is invoked once and the client receives the upstream
\* error body and nothing else; otherwise mark_success is invoked once before
\* the first chunk is forwarded, and the upstream chunks are forwarded to the
\* client in upstream order and unmodified.
C14_Step ==
    LET t == ev'.task
        k == task[t].key
    IN /\ ev'.op = "stream_status" =>
             IF ev'.up.status >= 400
             THEN /\ ev'.mark = "failure" /\ ev'.mkey = k
                  /\ FailuresAdded(k) = 1 /\ SuccessesAdded(k) = 0
                  /\ ev'.resp.body = ev'.up.body
                  /\ task'[t].pc = "idle"
             ELSE /\ ev'.mark = "success" /\ ev'.mkey = k
                  /\ FailuresAdded(k) = 0 /\ SuccessesAdded(k) = 1
                  /\ ev'.resp.body = ""
                  /\ task'[t].pc = "streaming"
                  /\ task'[t].out = <<>> /\ task'[t].sent = <<>>
       /\ ev'.op = "stream_chunk" =>
             /\ ev'.mark = "none"
             /\ heap' = heap
             /\ task'[t].pc = "streaming"

\* the bytes of a sequence of chunks
RECURSIVE Bytes(_)
Bytes(chunks) ==
    IF chunks = <<>> THEN <<>> ELSE Head(chunks) \o Bytes(Tail(chunks))

C14_Piped ==
    \A t \in Tasks :
        /\ task[t].out = SelectSeq(task[t].sent, LAMBDA c : c # <<>>)
        /\ Bytes(task[t].out) = Bytes(task[t].sent)
        /\ task[t].sent # <<>> => task[t].pc = "streaming"

C14_StreamingClassification == []C14_Piped /\ [][C14_Step]_vars

\* two different chunks were piped after the success was marked
C14_Witness ==
    \E t \in Tasks :
        /\ task[t].pc = "streaming"
        /\ task[t].out = << <<"b", "c">>, <<"a">> >>
        /\ heap[task[t].key].success >= 1

\* C15: once a streaming dispatch has invoked mark_success at the status
\* line, no later event on that stream (upstream read error, upstream or
\* client disconnect while chunks are piped) invokes mark_failure on that key;
\* its failure count, backoff and banned_until are unchanged by mid-stream
\* failures.
C15_Step ==
    \A t \in Tasks :
        (task[t].pc = "streaming" /\ ev'.task = t) =>
            LET k == task[t].key
            IN /\ ev'.mark # "failure"
               /\ heap'[k].fail = heap[k].fail
               /\ heap'[k].backoff = heap[k].backoff
               /\ heap'[k].banned_until = heap[k].banned_until

C15_StreamingIrreversible == [][C15_Step]_vars

\* what the client of the step asked for
EvRequest == Requests[ev.req]

\* the step left the pool, every Key State and every task as they were, and
\* neither acquired a key nor dispatched anything
NoPoolInteraction ==
    /\ heap' = heap
    /\ POOL' = POOL
    /\ task' = task
    /\ acqTimes' = acqTimes
    /\ ev'.acq = NoKey
    /\ ev'.dkey = NoKey
    /\ ev'.mark = "none"

\* the paths models, v1/models and models/*
ModelListingPaths == {P_models, P_v1_models, P_models_x}

\* C16: a GET on models, v1/models or models/* never calls next_available,
\* never dispatches upstream and leaves every Key State and the pool cursor
\* unchanged; once past client authentication it returns the synthetic
\* one-entry list with id salesmanchatbot-pro whatever the pool state
\* (including an empty pool or all keys banned).
C16_Step ==
    (ev'.op = "request" /\ EvRequest'.method = "GET"
     /\ EvRequest'.path \in ModelListingPaths) =>
        /\ NoPoolInteraction
        /\ ev'.raised = "none"
        /\ ev'.resp.status \notin {401, 403} =>
              ev'.resp = [status |-> 200, ctype |-> "application/json",
                          body |-> "salesmanchatbot-pro"]

C16_ModelListingPurity == [][C16_Step]_vars

\* the list is returned for GET models/x by an empty pool
C16_Witness ==
    /\ ev.op = "request" /\ EvRequest.method = "GET"
    /\ EvRequest.path = P_models_x
    /\ ev.resp.body = "salesmanchatbot-pro"
    /\ POOL.n = 0

\* C17: every request dispatched upstream carries exactly one Authorization
\* header and its value is 'Bearer <acquired key>'; the value of the client's
\* own Authorization header and the client's host, content-length,
\* transfer-encoding and connection headers are never in the forwarded header
\* set, whatever letter case the client used for the header names.
C17_HeaderHygiene ==
    ev.dkey # NoKey =>
        LET auths == {k \in DOMAIN ev.fwd : lower(k) = H_authorization}
            client == EvRequest.headers
        IN /\ Cardinality(auths) = 1
           /\ \A k \in auths : ev.fwd[k] = Bearer(heap[ev.dkey].key)
           /\ \A k \in DOMAIN ev.fwd : lower(k) \notin HOP_HEADERS
           /\ \A c \in DOMAIN client :
                 lower(c) = H_authorization =>
                     \A k \in DOMAIN ev.fwd :
                         ev.fwd[k] = client[c] => client[c] = Bearer(heap[ev.dkey].key)

\* the client paths that are proxy paths
ProxyPaths == {P_v1_chat, P_chat, P_v1_models, P_models, P_models_x}

\* C18: a request whose path is not a recognized proxy path is answered 404
\* (unless client authentication refuses it first) and causes no
\* next_available call, no mutation of any Key State or of the cursor, and no
\* upstream dispatch.
C18_Step ==
    (ev'.op = "request" /\ EvRequest'.path \notin ProxyPaths) =>
        /\ NoPoolInteraction
        /\ ev'.resp.status \in {401, 403, 404}

C18_UnknownPathNotFound == [][C18_Step]_vars

\* the requests the middleware lets pass without a credential
PublicRequest(req) ==
    \/ (<<"/">> \o req.path) \in PUBLIC_PATHS
    \/ req.method = "GET" /\ endswith(req.path, P_chat)

\* the pool credentials and the admin token
Credentials ==
    {ADMIN_TOKEN} \cup {heap[POOL.states[i]].key : i \in 1..Len(POOL.states)}

\* the request has a header Authorization: Bearer <token> (names and scheme
\* in any letter case) with a token among the credentials
BearerCredential(req) ==
    \E c \in DOMAIN req.headers :
        /\ lower(c) = H_authorization
        /\ \E tok \in Credentials :
              /\ Len(req.headers[c]) = 7 + Len(tok)
              /\ lower(SubSeq(req.headers[c], 1, 7)) = lower(Bearer(<<>>))
              /\ SubSeq(req.headers[c], 8, Len(req.headers[c])) = tok

\* C19 as stated: a non-public request reaches the proxy handler only if it
\* presents Authorization: Bearer <token> with the admin token or a pool
\* credential.
C19_BearerHeaderOnly ==
    (ev.op = "request" /\ ~PublicRequest(EvRequest)
     /\ ev.resp.status \notin {401, 403}) => BearerCredential(EvRequest)

\* what each request presents: whether it is public, whether its
\* Authorization header is not two words or names a scheme other than bearer,
\* and its token (from the header, or from the query when there is no header)
Presented ==
    [r \in DOMAIN Requests |->
        LET req == Requests[r]
            named == {c \in DOMAIN req.headers : lower(c) = H_authorization}
            words == split(req.headers[CHOOSE c \in named : TRUE])
            wellformed == /\ Len(words) = 2
                          /\ lower(words[1]) = lower(SubSeq(Bearer(<<>>), 1, 6))
        IN [public |-> PublicRequest(req),
            malformed |-> named # {} /\ ~wellformed,
            token |-> IF named = {} THEN req.qkey
                      ELSE IF wellformed THEN words[2] ELSE <<>>]]

\* C19: a non-public request reaches the proxy handler only if it presents
\* the admin token or a credential currently in the pool, either in an
\* Authorization header of two words whose first is "bearer" in any letter
\* case, or, when it has no Authorization header, in the query parameter key.
\* No Authorization header and no key parameter, or a header that is not two
\* words or names another scheme: 401.  A token that is neither the admin
\* token nor a pool credential: 403.  Both before any key acquisition,
\* key-state mutation or upstream dispatch.
C19_Step ==
    (ev'.op = "request" /\ ~Presented[ev'.req].public) =>
        LET p == Presented[ev'.req]
            status == IF p.malformed \/ p.token = <<>> THEN 401
                      ELSE IF p.token \notin Credentials THEN 403
                      ELSE 0
        IN IF status # 0
           THEN ev'.resp.status = status /\ NoPoolInteraction
           ELSE ev'.resp.status \notin {401, 403}

C19_ClientAuthentication == [][C19_Step]_vars

\* a request with the credential of row 1 in the query string and no
\* Authorization header acquired a key
C19_Witness ==
    /\ ev.op = "request"
    /\ EvRequest.headers = NoHeaders
    /\ EvRequest.qkey = KeyText[1]
    /\ ev.acq # NoKey

\* C20: no exception crosses the request boundary: for every pool state and
\* every upstream outcome, the status snapshot, the model-listing forward, and
\* the streaming and non-streaming execution paths each end in an HTTP
\* response rather than an unhandled exception.
C20_NoException == ev.raised = "none"

\* the KeyStates of the global pool
PoolStates == {POOL.states[i] : i \in 1..Len(POOL.states)}

\* C21: reload is atomic with respect to requests: a request that acquired a
\* key before a reload completes against that same Key State (its
\* mark_success / mark_failure change the old state and no state of the new
\* pool), and every next_available call that starts after the reload selects
\* only among the Key States of the new pool.
C21_Step ==
    /\ ev'.op = "reload_swap" =>
           /\ task' = task
           /\ \A id \in DOMAIN heap : heap'[id] = heap[id]
    /\ ev'.mark # "none" =>
           /\ ev'.mkey = task[ev'.task].key
           /\ heap'[ev'.mkey] # heap[ev'.mkey]
           /\ \A id \in DOMAIN heap : id # ev'.mkey => heap'[id] = heap[id]
           /\ admin.born[ev'.mkey] < admin.gen => ev'.mkey \notin PoolStates
    /\ ev'.acq # NoKey =>
           /\ ev'.acq \in PoolStates
           /\ admin.born[ev'.acq] = admin.gen

C21_ReloadAtomic == [][C21_Step]_vars

\* a request that acquired its key before a reload fails after it: the old
\* Key State is marked and the next key comes from the new pool
C21_Witness ==
    /\ ev.op = "exception"
    /\ ev.mark = "failure"
    /\ admin.born[ev.mkey] < admin.gen
    /\ ev.acq # NoKey
    /\ admin.born[ev.acq] = admin.gen

\* the reload step whose load_keys_from_postgres met a datastore failure
FailedReload == ev'.op = "reload_swap" /\ ev'.up.kind = "DatastoreError"

\* C22 as stated: if the datastore fails during a reload, the reload reports
\* failure and the pool is exactly as before the reload: the same Key State
\* objects with the same counters, backoff and usage, and the same cursor.
C22_Stated ==
    FailedReload =>
        /\ ev'.resp.status >= 400
        /\ heap' = heap
        /\ POOL' = POOL

C22_FailedReloadKeepsPool == [][C22_Stated]_vars

\* C22: if the datastore fails during a reload and no fallback source (the
\* Supabase table, api_keys.txt) yields a key, the reload reports failure
\* (500) and the pool is exactly as before the reload: the same Key State
\* objects with the same counters, backoff and usage, and the same cursor;
\* if a fallback source yields keys, the reload reports success and the pool
\* is replaced by new Key States for those keys.
C22_Step ==
    FailedReload =>
        IF scen.fallback = <<>>
        THEN /\ ev'.resp.status = 500
             /\ heap' = heap
             /\ POOL' = POOL
        ELSE /\ ev'.resp.status = 200
             /\ POOL'.n = Len(scen.fallback)
             /\ \A i \in 1..POOL'.n :
                    /\ POOL'.states[i] \notin DOMAIN heap
                    /\ heap'[POOL'.states[i]].key = scen.fallback[i].key
             /\ \A id \in DOMAIN heap : heap'[id] = heap[id]

C22_FailedReload == [][C22_Step]_vars

\* a reload failed on the datastore and left a pool with a moved cursor and
\* a key in backoff as it was
C22_Witness ==
    /\ ev.op = "reload_swap"
    /\ ev.up.kind = "DatastoreError"
    /\ ev.resp.status = 500
    /\ admin.gen = 0
    /\ POOL.idx # 0
    /\ \E id \in PoolStates : heap[id].backoff > 0

\* C23: failed requests consume rate-limit budget: after a key is acquired
\* and its request then fails upstream (mark_failure), the key's per-minute
\* and per-day usage counts are each exactly one higher than before the
\* acquisition; the count added at acquisition is never rolled back.
C23_Step ==
    ev'.mark = "failure" =>
        /\ heap'[ev'.mkey].usage_minute = task[ev'.task].seen.minute + 1
        /\ heap'[ev'.mkey].usage_day = task[ev'.task].seen.day + 1

C23_FailedRequestsCount == [][C23_Step]_vars

\* preview differs from key and shows no more of it than its first 8
\* characters
NoLeak(preview, key) ==
    /\ preview # key
    /\ Len(key) > 8 => ~contains(preview, prefix(key, 9))

Parsed == [r \in DOMAIN Requests |-> json_loads(Requests[r].body)]

IsObject(j) == j.ok /\ j.val.t = "obj"
HasModel(j) == IsObject(j) /\ obj_has(j.val.items, S_model)
ModelOf(j) == json_dumps(obj_get(j.val.items, S_model))
Quoted(str) == <<"\"">> \o str \o <<"\"">>

\* the objects a and b have the same members in the same order, and the
\* same values but for the member model
SameButModel(a, b) ==
    /\ Len(a.val.items) = Len(b.val.items)
    /\ \A k \in 1..Len(a.val.items) :
           /\ a.val.items[k].name = b.val.items[k].name
           /\ a.val.items[k].name # S_model =>
                  json_dumps(a.val.items[k].val) = json_dumps(b.val.items[k].val)

\* content in was rewritten to out as claimed when aliases are the public
\* aliases
RewrittenAs(content, sent, in, out, aliases) ==
    /\ (HasModel(in) /\ ModelOf(in) \in {Quoted(a) : a \in aliases}) =>
           /\ HasModel(out)
           /\ ModelOf(out) = Quoted(BACKEND_MODEL)
           /\ SameButModel(in, out)
    /\ (HasModel(in) /\ ModelOf(in) \notin {Quoted(a) : a \in aliases}) =>
           /\ HasModel(out)
           /\ ModelOf(out) = ModelOf(in)
    /\ ~in.ok => sent = content

\* the dispatch of a model-execution request rewrote its content as claimed
Rewritten(aliases) ==
    ev'.acq # NoKey =>
        RewrittenAs(Requests[ev'.req].body, ev'.sent, Parsed[ev'.req],
                    json_loads(ev'.sent), aliases)

\* C25 as stated: for a model-execution request whose JSON body has
\* top-level model equal to the public alias salesmanchatbot-pro, the body
\* dispatched upstream has model = gemini-2.5-flash and every other top-level
\* field unchanged; a body with any other model value keeps its model, and a
\* body that is not valid JSON is forwarded byte-for-byte unchanged.
C25_OneAlias == [][Rewritten({ALIAS_PRO})]_vars

\* C25: for a model-execution request whose JSON body has top-level model
\* equal to one of the public aliases salesmanchatbot-pro and
\* salesmancahtbot-flash, the body dispatched upstream has model =
\* gemini-2.5-flash and every other top-level field unchanged; a body with
\* any other model value keeps its model, and a body that is not valid JSON
\* is forwarded byte-for-byte unchanged.
C25_AliasRewriting == [][Rewritten({ALIAS_PRO, ALIAS_FLASH})]_vars

\* the body of src/test_api.py dispatched with the backend model and its
\* messages and stream members
BackendAmong(j, n) ==
    /\ ModelOf(j) = Quoted(BACKEND_MODEL)
    /\ Len(j.val.items) = n

C25_Witness ==
    /\ ev.acq # NoKey
    /\ Requests[ev.req].body = B_alias
    /\ ev.sent # B_alias
    /\ BackendAmong(json_loads(ev.sent), Len(Parsed[ev.req].val.items))

\* C26: every upstream dispatch made on the model-listing path (models,
\* models/*) uses a direct connection and never the egress proxy, streaming
\* or not; only model-execution dispatches go through the egress proxy.
C26_ListingBypassesProxy ==
    (ev.op = "request" /\ ev.via # "none") =>
        (ev.via = "proxy" <=> ~task[ev.task].listing)

\* a detached update_usage_in_db task ran in this step
SyncRan == \E id \in DOMAIN pending : Len(pending'[id]) < Len(pending[id])

\* C27: a usage-sync task, failing or not, changes neither a client's
\* response nor any Key State, and the request path never waits for one: the
\* step that marks a success hands over the response while the sync task it
\* created is still pending.
C27_Step ==
    /\ SyncRan =>
           /\ heap' = heap
           /\ POOL' = POOL
           /\ task' = task
           /\ ev'.resp = NoResp
    /\ (ev'.op = "response" /\ ev'.mark = "success") =>
           /\ ev'.resp # NoResp
           /\ Len(pending'[ev'.mkey]) = Len(pending[ev'.mkey]) + 1
C27_SyncBestEffort == [][C27_Step]_vars

\* a sync task of a key failed after the response was given: no task is
\* left and the datastore row is behind the key's usage_day
C27_Witness ==
    /\ ev = NoEv
    /\ \E id \in DOMAIN heap :
           /\ pending[id] = <<>>
           /\ heap[id].success > 0
           /\ \E i \in 1..Len(db) :
                  /\ db[i].api = heap[id].key
                  /\ db[i].usage_today < heap[id].usage_day

\* C28, the direction that can be stated without the hourly limit (a
\* KeyState has rpm_limit and rpd_limit and no hourly limit): is_available
\* returns true only if now >= banned_until, and the key's acquisitions
\* within the last 60 s number fewer than rpm, and those of the day plus the
\* baseline number fewer than rpd.
C28_AvailableOnlyIf ==
    \A id \in KeyIds :
        is_available(heap[id], time_time, today_date).ok =>
            /\ ~(mono < heap[id].banned_until)
            /\ Len(acqTimes[id]) < heap[id].rpm_limit
            /\ acqDay[id] + baseline[id] < heap[id].rpd_limit

DigitValue ==
    [c \in Digits |->
        CHOOSE n \in 0..9 :
            c = <<"0", "1", "2", "3", "4", "5", "6", "7", "8", "9">>[n + 1]]

RECURSIVE int(_)
int(str) ==
    IF str = <<>> THEN 0
    ELSE 10 * int(SubSeq(str, 1, Len(str) - 1)) + DigitValue[str[Len(str)]]

\* the limit an admin request asks for under this name
Asked(r, name) == int(obj_get(Parsed[r].val.items, name).s)

\* C29: after the admin 'update config' operation sets new {rpm, rph, rpd}
\* values, every subsequent availability check of every Key State is
\* evaluated against the new values: the limits is_available reads for each
\* key of the pool are the ones the admin asked for.
C29_ConfigApplies ==
    (ev.op = "request" /\ ev.req \in ConfigRequests
        /\ is_authenticated(Requests[ev.req])) =>
        \A i \in 1..Len(POOL.states) :
            /\ heap[POOL.states[i]].rpm_limit = Asked(ev.req, <<"r", "p", "m">>)
            /\ heap[POOL.states[i]].rpd_limit = Asked(ev.req, <<"r", "p", "d">>)

\* C30: a ban is honoured for its full duration under concurrency: while the
\* time mark_failure banned a key until has not come, no step acquires the
\* key and no step, a mark_success of an earlier acquisition included, ends
\* or shortens the ban.
C30_Step ==
    \A id \in KeyIds :
        (mono < heap[id].banned_until /\ mono' < heap[id].banned_until) =>
            /\ ev'.acq # id
            /\ heap'[id].banned_until >= heap[id].banned_until
C30_BanHonoured == [][C30_Step]_vars

\* C31: in every reachable state and under any interleaving of concurrent
\* requests, each key's per-minute usage count is at most rpm_limit and its
\* per-day usage count (the count loaded from the datastore included) is at
\* most rpd_limit.
C31_CounterInvariant ==
    \A id \in KeyIds :
        /\ heap[id].usage_minute <= heap[id].rpm_limit
        /\ heap[id].usage_day <= heap[id].rpd_limit

\* a step in which catch_all's loop called next_available and got none
NoneFound ==
    /\ ev'.op \in {"request", "exception"}
    /\ ev'.acq = NoKey
    /\ ev'.resp.status = 429
    /\ ev'.resp.body = "all keys unavailable"

\* heap when that call was made: after the mark_failure of the same step
HeapAtCall ==
    IF ev'.mark = "failure"
    THEN [heap EXCEPT ![ev'.mkey] = mark_failure(heap[ev'.mkey], mono)]
    ELSE heap

\* b is a but for the lazy resets is_available makes: usage_day and
\* last_check_date on a new UTC date, usage_minute and minute_start_time
\* when the minute window has run out
LazyResets(a, b) ==
    /\ b = [a EXCEPT !.usage_day = b.usage_day,
                     !.last_check_date = b.last_check_date,
                     !.usage_minute = b.usage_minute,
                     !.minute_start_time = b.minute_start_time]
    /\ \/ /\ b.usage_day = a.usage_day
          /\ b.last_check_date = a.last_check_date
       \/ /\ today_date > a.last_check_date
          /\ b.usage_day = 0
          /\ b.last_check_date = today_date
    /\ \/ /\ b.usage_minute = a.usage_minute
          /\ b.minute_start_time = a.minute_start_time
       \/ /\ time_time - a.minute_start_time >= MinuteSeconds
          /\ b.usage_minute = 0
          /\ b.minute_start_time = time_time

\* C32 as stated: when next_available finds no available key it returns
\* none and leaves the pool and every Key State unchanged: cursor, usage
\* counters and window start, last day bucket, backoff, banned_until and
\* success/fail counts.
C32_NoMutation == [][NoneFound => (POOL' = POOL /\ heap' = HeapAtCall)]_vars

\* C32: when next_available finds no available key it returns none and
\* leaves the cursor and each key's backoff, banned_until and success/fail
\* counts unchanged; of the usage counters only the lazy resets of
\* is_available happen (day count on a new UTC date, minute count when the
\* minute window has run out).
C32_Step ==
    NoneFound =>
        /\ POOL' = POOL
        /\ DOMAIN heap' = DOMAIN heap
        /\ \A id \in DOMAIN heap : LazyResets(HeapAtCall[id], heap'[id])
C32_NoneLeavesPool == [][C32_Step]_vars

\* a request found no key on a new UTC date: the key is banned and the check
\* has reset the day count loaded from the datastore
C32_Witness ==
    /\ ev.op = "request"
    /\ ev.acq = NoKey
    /\ ev.resp.status = 429
    /\ POOL.n > 0
    /\ \E id \in KeyIds :
           /\ mono < heap[id].banned_until
           /\ heap[id].last_check_date = today_date
           /\ today_date > utc_date(StartMono + epoch)
           /\ heap[id].usage_day = 0
           /\ heap[id].success = 0
           /\ \E i \in 1..Len(db) :
                  db[i].api = heap[id].key /\ db[i].usage_today > 0

\* the availability check of key state a now, with result r
RolloverCheck(a, r) ==
    /\ today_date > a.last_check_date =>
           /\ r.st.usage_day = 0
           /\ r.st.last_check_date = today_date
           /\ status_msg(a, mono) = "Daily Limit" => r.ok
    /\ ~(today_date > a.last_check_date) =>
           /\ r.st.usage_day = a.usage_day
           /\ r.st.last_check_date = a.last_check_date

\* C33: on the first availability check after the UTC date has changed since
\* the key's last day bucket, the day usage is reset to zero and the bucket
\* advances before the limits are evaluated, so a key that was
\* Rate-Limited-Day and is not in backoff is available again; without a date
\* change the day usage is never reset (no step lowers it otherwise).
C33_Step ==
    /\ \A id \in KeyIds :
           RolloverCheck(heap[id], is_available(heap[id], time_time, today_date))
    /\ \A id \in KeyIds :
           heap'[id].usage_day < heap[id].usage_day =>
               /\ today_date > heap[id].last_check_date
               /\ heap'[id].usage_day = 0
               /\ heap'[id].last_check_date = today_date
C33_UtcRollover == [][C33_Step]_vars

\* a key at its daily limit was acquired on the next UTC date with its day
\* usage reset
C33_Witness ==
    /\ ev.acq # NoKey
    /\ today_date > utc_date(StartMono + epoch)
    /\ heap[ev.acq].usage_day = 0
    /\ heap[ev.acq].success = 1
    /\ heap[ev.acq].last_check_date = today_date
    /\ \E i \in 1..Len(db) :
           /\ db[i].api = heap[ev.acq].key
           /\ db[i].usage_today >= DEFAULT_RPD - 1
           /\ db[i].last_used_at >= utc_date(StartMono + epoch)

\* key id is Rate-Limited-Minute, not in backoff and under its daily limit
MinuteLimited(id) ==
    /\ id \in DOMAIN heap
    /\ status_msg(heap[id], mono) = "RPM Limit"
    /\ heap[id].usage_day < heap[id].rpd_limit

AvailableNow(id) ==
    id \in DOMAIN heap /\ is_available(heap[id], time_time, today_date).ok

\* the clock of the model still runs for a minute
MinuteLeft == (MaxExpiryTicks - ticks) * (MinuteSeconds \div 2) >= MinuteSeconds

C34_Expired ==
    \A id \in DOMAIN heap :
        /\ heap[id].minute_start_time <= time_time
        /\ (MinuteLimited(id)
              /\ time_time - heap[id].minute_start_time >= MinuteSeconds)
           => AvailableNow(id)

\* The pool of SpecExpiry holds at most one key, key state 1.
C34_Limited == MinuteLimited(1) /\ MinuteLeft
C34_Available == AvailableNow(1)

\* C34: a key that is Rate-Limited-Minute, not in backoff and under its daily
\* limit is available again, with no request and no admin action, once 60
\* seconds have elapsed (its window began no later than the moment it became
\* limited); while time advances no key stays Rate-Limited-Minute forever.
C34_NaturalExpiry ==
    /\ []C34_Expired
    /\ C34_Limited ~> C34_Available

\* a key that used up its minute was acquired again after the clock alone
\* moved on
C34_Witness ==
    /\ ev.acq # NoKey
    /\ heap[ev.acq].success = DEFAULT_RPM
    /\ heap[ev.acq].usage_minute = 0
    /\ heap[ev.acq].minute_start_time >= StartMono + epoch + MinuteSeconds
    /\ heap[ev.acq].fail = 0

\* the sequence q without its j-th element
Without(q, j) == SubSeq(q, 1, j - 1) \o SubSeq(q, j + 1, Len(q))

\* the j-th pending task of key state id ran in this step and wrote its row
SyncWrote(id, j) ==
    /\ j \in 1..Len(pending[id])
    /\ pending' = [pending EXCEPT ![id] = Without(pending[id], j)]
    /\ db' # db

\* the rows of the key of key state id hold usage_today = n after the step,
\* and no other row changed
RowsHold(id, n) ==
    /\ Len(db') = Len(db)
    /\ \A i \in 1..Len(db) :
           IF db[i].api = heap[id].key
           THEN db'[i].usage_today = n /\ db'[i].last_used_at = today_date
           ELSE db'[i] = db[i]

\* C35 as stated: the task created by a mark_success writes the day count
\* that mark_success left, whatever happened to the key before the task ran
C35_Step ==
    \A id \in DOMAIN pending : \A j \in 1..Len(pending[id]) :
        SyncWrote(id, j) => RowsHold(id, pending[id][j])
C35_RunStep ==
    \A id \in DOMAIN pending : \A j \in 1..Len(pending[id]) :
        SyncWrote(id, j) => RowsHold(id, heap[id].usage_day)
LoopStep(t) == ev'.op \in {"request", "exception"} /\ ev'.task = t

C36_Step ==
    \A t \in Tasks :
        \* at most N dispatches, one per key handed out
        /\ task'[t].i <= task'[t].n
        /\ Len(task'[t].tried) = task'[t].i
        /\ LoopStep(t) =>
               \* N is the size of the pool when the loop was entered
               /\ ev'.op = "request" => task'[t].n \in {0, Len(POOL.states)}
               /\ ev'.op = "exception" => task'[t].n \in {0, task[t].n}
               \* the step ends with a dispatch and no response yet, or with
               \* the one response
               /\ IF ev'.acq # NoKey /\ ~ev'.stream
                  THEN task'[t].pc = "await" /\ ev'.resp = NoResp
                       /\ task'[t].i = (IF ev'.op = "request" THEN 0 ELSE task[t].i) + 1
                  ELSE ev'.resp # NoResp
               /\ ev'.acq = NoKey =>
                      /\ task'[t] = IdleTask
                      /\ ev'.resp.status = 429
                      /\ ev'.resp.body = "all keys unavailable"
               \* after N calls of next_available there is no further call
               /\ (ev'.op = "exception" /\ task[t].i = task[t].n) =>
                      /\ ev'.acq = NoKey
                      /\ POOL' = POOL
                      /\ heap' = [heap EXCEPT
                                     ![ev'.mkey] = mark_failure(heap[ev'.mkey], mono)]
               \* an empty pool: no dispatch and 429
               /\ (ev'.op = "request" /\ Len(POOL.states) = 0) =>
                      ev'.acq = NoKey /\ ev'.resp.status = 429
        \* the response of a dispatch ends the handler
        /\ (ev'.op = "response" /\ ev'.task = t /\ ~ev'.stream) =>
               task'[t] = IdleTask /\ ev'.resp # NoResp

C36_Busy == task[1].pc # "idle"
C36_Idle == task[1].pc = "idle"

\* C36: every model-execution request ends with exactly one response after
\* at most N next_available calls and at most N upstream dispatches, N being
\* the number of keys in the pool when the request entered the retry loop;
\* with an empty pool it makes no dispatch and answers 429.
C36_Terminates ==
    /\ [][C36_Step]_vars
    /\ C36_Busy ~> C36_Idle

\* every key of a pool of MaxTermKeys keys was dispatched to and raised, and
\* the request was answered 429 after the last one
C36_Witness ==
    /\ ev.op = "exception"
    /\ ev.acq = NoKey
    /\ ev.resp.status = 429
    /\ Len(ev.tried) = MaxTermKeys
    /\ Len(POOL.states) = MaxTermKeys
    /\ task[ev.task] = IdleTask

\* marks made on key state id so far
Marks(h, id) == h[id].success + h[id].fail

\* dispatches made with key state id that have not ended yet
Awaited(id) == Cardinality({t \in Tasks : task[t].pc = "await" /\ task[t].key = id})

\* a dispatch made with key state id ended in this step
Completed(id) ==
    /\ ev'.op \in {"response", "request_error", "exception"}
    /\ task[ev'.task].key = id
    /\ task[ev'.task].pc = "await"

C37_Step ==
    \A id \in DOMAIN heap :
        /\ Completed(id) =>
               /\ Marks(heap', id) = Marks(heap, id) + 1
               /\ ev'.mkey = id
               /\ ev'.mark = "success" =>
                      heap'[id].success = heap[id].success + 1
               /\ ev'.mark = "failure" => heap'[id].fail = heap[id].fail + 1
               /\ ev'.mark \in {"success", "failure"}
        /\ ~Completed(id) => Marks(heap', id) = Marks(heap, id)

\* every dispatch made with a key state was marked once when it ended
C37_Counted ==
    \A id \in DOMAIN heap : Marks(heap, id) + Awaited(id) = acqDay[id]

Quiescent ==
    /\ \A t \in Tasks : task[t].pc = "idle"
    /\ admin.pc = "idle"
    /\ \A id \in DOMAIN pending : pending[id] = <<>>

\* the datastore row of every pooled key holds the key's usage_day
Converged ==
    \A s \in 1..Len(POOL.states) : \A i \in 1..Len(db) :
        db[i].api = heap[POOL.states[s]].key =>
            db[i].usage_today = heap[POOL.states[s]].usage_day

\* C38: once requests have stopped and every pending usage-sync task has
\* completed without a datastore error, the datastore's usage_today of each
\* pooled key equals the key's in-memory day count, in whatever order the
\* sync tasks reached the datastore and whether or not a reload happened in
\* between. Nothing changes a row or a counter once the system is quiescent,
\* so "eventually equals" means: equals in every quiescent state.
C38_DurableConvergence == Quiescent => Converged

\* a reload installed a new pool in this step
Reloaded == ev'.op = "reload_swap" /\ ev'.resp.status = 200

\* the keys reload_keys built the pool from: the rows it fetched, else the
\* fallback sources
Loaded == load_keys(admin.keys, scen.fallback)

\* key state st is new, with the day usage of key_data
Fresh(st, key_data) ==
    /\ st.key = key_data.key
    /\ st.backoff = 0
    /\ st.banned_until = 0
    /\ st.success = 0
    /\ st.fail = 0
    /\ st.usage_minute = 0
    /\ st.usage_day = IF key_data.last_used # NoDate /\ key_data.last_used < today_date
                      THEN 0 ELSE key_data.usage_day

\* C39: after a successful reload every Key State of the new pool has backoff
\* 0, banned_until 0, success 0, fail 0 and per-minute usage 0, and the cursor
\* is 0, whatever state the same credential had in the old pool; its day
\* usage is the value read from the datastore, or 0 if the record was last
\* used on an earlier UTC date.
C39_Step ==
    Reloaded =>
        /\ POOL'.idx = 0
        /\ Len(POOL'.states) = Len(Loaded)
        /\ \A i \in 1..Len(Loaded) : Fresh(heap'[POOL'.states[i]], Loaded[i])
C39_ReloadFresh == [][C39_Step]_vars

\* a reload replaced a pool whose cursor had moved and whose key had failed
\* and was in backoff; the row of a key of the new pool was last used on an
\* earlier date and holds a day usage that the new Key State does not
C39_Witness ==
    /\ ev.op = "reload_swap"
    /\ ev.resp.status = 200
    /\ POOL.idx = 0
    /\ \E old \in DOMAIN heap : \E s \in 1..Len(POOL.states) :
           /\ old \notin PoolStates
           /\ heap[old].key = heap[POOL.states[s]].key
           /\ heap[old].fail > 0
           /\ heap[old].banned_until > 0
           /\ heap[POOL.states[s]].fail = 0
    /\ \E s \in 1..Len(POOL.states) : \E i \in 1..Len(db) :
           /\ db[i].api = heap[POOL.states[s]].key
           /\ db[i].usage_today > 0
           /\ db[i].last_used_at # NoDate
           /\ db[i].last_used_at < today_date
           /\ heap[POOL.states[s]].usage_day = 0

\* the cursor of the pool is a slot of it
CursorInRange ==
    /\ POOL.n = Len(POOL.states)
    /\ POOL.n > 0 => (0 <= POOL.idx /\ POOL.idx < POOL.n)
    /\ POOL.n = 0 => POOL.idx = 0
    /\ POOL.n = 0 => next_available(heap, POOL, time_time, today_date).st = NoKey

\* a request that found the pool empty got no key and left the pool alone
EmptyGivesNone ==
    (ev'.op = "request" /\ POOL.n = 0 /\ ev'.task # 0) =>
        /\ ev'.acq = NoKey
        /\ POOL' = POOL
        /\ heap' = heap

\* C40: after any sequence of next_available calls and reloads, the pool's n
\* is the number of its Key States and the cursor satisfies 0 <= idx < n
\* whenever n > 0 (idx = 0 for an empty pool); next_available on an empty
\* pool returns none.
C40_CursorInvariant == []CursorInRange /\ [][EmptyGivesNone]_vars

\* the last slot of a pool of several keys was handed out and the cursor
\* wrapped to 0, in a pool that a reload installed
C40_Witness ==
    /\ ev.acq # NoKey
    /\ POOL.n > 1
    /\ ev.slot = POOL.n - 1
    /\ POOL.idx = 0
    /\ admin.gen > 0

====
